---- MODULE Spec2Model ----
(***************************************************************************)
(* Model of the VNCagentic chat pipeline: the /chat endpoint               *)
(* (backend/app/api/endpoints/simple_chat.py) and the AIGenerativeAgent    *)
(* turn processing (backend/app/agent/ai_generative_agent.py).             *)
(*                                                                         *)
(* Representation.  A Python str is a record with ty = "str": either       *)
(* plain characters (t = "chars", s a sequence of one-character strings)   *)
(* or the text of a JSON document (t = "json", v the value json.dumps      *)
(* serialised, fence the markdown fence the text is wrapped in).  Other    *)
(* Python values carry their type in ty: "num", "null", "list", "dict".    *)
(* A dict is a function from its keys (strings) to values.                 *)
(***************************************************************************)
EXTENDS Integers, Sequences, FiniteSets, TLC

\* ------------------------------------------------------------------------
\* Python str operations, on sequences of one-character strings
\* ------------------------------------------------------------------------
UpperCase == <<"A","B","C","D","E","F","G","H","I","J","K","L","M","N","O","P","Q","R","S","T","U","V","W","X","Y","Z">>
LowerCase == <<"a","b","c","d","e","f","g","h","i","j","k","l","m","n","o","p","q","r","s","t","u","v","w","x","y","z">>
Digits == <<"0","1","2","3","4","5","6","7","8","9">>

IsSpace(c) == c \in {" ", "\n", "\t"}
IsDigit(c) == \E i \in 1..Len(Digits) : Digits[i] = c

LowerChar(c) ==
    IF \E i \in 1..Len(UpperCase) : UpperCase[i] = c
    THEN LowerCase[CHOOSE i \in 1..Len(UpperCase) : UpperCase[i] = c]
    ELSE c
\* str.lower()
Lower(s) == [i \in 1..Len(s) |-> LowerChar(s[i])]

RECURSIVE LStrip(_)
LStrip(s) == IF s # <<>> /\ IsSpace(Head(s)) THEN LStrip(Tail(s)) ELSE s
RECURSIVE RStrip(_)
RStrip(s) ==
    IF s # <<>> /\ IsSpace(s[Len(s)]) THEN RStrip(SubSeq(s, 1, Len(s) - 1)) ELSE s
\* str.strip()
Strip(s) == RStrip(LStrip(s))

\* str.startswith(p)
StartsWith(s, p) == Len(p) <= Len(s) /\ SubSeq(s, 1, Len(p)) = p
\* p in s
Contains(s, p) == \E i \in 0..(Len(s) - Len(p)) : SubSeq(s, i + 1, i + Len(p)) = p
\* any(w in s for w in words)
ContainsAny(s, words) == \E k \in 1..Len(words) : Contains(s, words[k])

\* str.replace(old, new): left to right, non-overlapping
RECURSIVE Replace(_, _, _)
Replace(s, old, new) ==
    IF Len(s) < Len(old) THEN s
    ELSE IF StartsWith(s, old)
         THEN new \o Replace(SubSeq(s, Len(old) + 1, Len(s)), old, new)
         ELSE <<Head(s)>> \o Replace(Tail(s), old, new)

\* for w in words: s = s.replace(w, " ")
RECURSIVE ReplaceEach(_, _)
ReplaceEach(s, words) ==
    IF words = <<>> THEN s
    ELSE ReplaceEach(Replace(s, Head(words), <<" ">>), Tail(words))

\* str.split(): the maximal runs of non-whitespace characters
RECURSIVE Split(_)
Split(s) ==
    LET t == LStrip(s)
        n == IF \E i \in 1..Len(t) : IsSpace(t[i])
             THEN (CHOOSE i \in 1..Len(t) :
                       IsSpace(t[i]) /\ \A j \in 1..(i - 1) : ~IsSpace(t[j])) - 1
             ELSE Len(t)
    IN  IF t = <<>> THEN <<>>
        ELSE <<SubSeq(t, 1, n)>> \o Split(SubSeq(t, n + 1, Len(t)))

\* sep.join(words)
RECURSIVE Join(_, _)
Join(words, sep) ==
    IF words = <<>> THEN <<>>
    ELSE IF Len(words) = 1 THEN Head(words)
    ELSE Head(words) \o sep \o Join(Tail(words), sep)

\* " ".join(s.split()).strip()
Collapse(s) == Strip(Join(Split(s), <<" ">>))

\* the length of the maximal run of characters satisfying the class at s[i..]
RECURSIVE DigitRun(_, _)
DigitRun(s, i) == IF i <= Len(s) /\ IsDigit(s[i]) THEN 1 + DigitRun(s, i + 1) ELSE 0
RECURSIVE SepRun(_, _)
SepRun(s, i) ==
    IF i <= Len(s) /\ (s[i] = "," \/ IsSpace(s[i])) THEN 1 + SepRun(s, i + 1) ELSE 0

\* re.findall(r'(\d+)[,\s]+(\d+)', s): whether position i starts a match
CoordsAt(s, i) ==
    LET d == DigitRun(s, i)
        p == SepRun(s, i + d)
    IN  d > 0 /\ p > 0 /\ DigitRun(s, i + d + p) > 0
\* coords[0] of the findall above, as <<x, y>>; <<>> when nothing matches
FirstCoords(s) ==
    IF \E i \in 1..Len(s) : CoordsAt(s, i)
    THEN LET i == CHOOSE k \in 1..Len(s) :
                      CoordsAt(s, k) /\ \A j \in 1..(k - 1) : ~CoordsAt(s, j)
             d == DigitRun(s, i)
             p == SepRun(s, i + d)
         IN  <<SubSeq(s, i, i + d - 1),
               SubSeq(s, i + d + p, i + d + p + DigitRun(s, i + d + p) - 1)>>
    ELSE <<>>

\* str(n) for a natural number n
RECURSIVE IntToStr(_)
IntToStr(n) ==
    IF n < Len(Digits) THEN <<Digits[n + 1]>>
    ELSE IntToStr(n \div Len(Digits)) \o <<Digits[(n % Len(Digits)) + 1]>>

\* ------------------------------------------------------------------------
\* Python values
\* ------------------------------------------------------------------------
Chars(cs) == [ty |-> "str", t |-> "chars", s |-> cs]
JsonText(f, val) == [ty |-> "str", t |-> "json", fence |-> f, v |-> val]
Num(n) == [ty |-> "num", n |-> n]
None == [ty |-> "null"]
List(l) == [ty |-> "list", l |-> l]
Dict(d) == [ty |-> "dict", d |-> d]

\* True and False
Bool(b) == [ty |-> "bool", b |-> b]

IsStr(x) == x.ty = "str"
IsList(x) == x.ty = "list"
IsDict(x) == x.ty = "dict"

\* bool(x)
Truthy(x) ==
    CASE x.ty = "str" -> (x.t = "json" \/ x.s # <<>>)
      [] x.ty = "bool" -> x.b
      [] x.ty = "num" -> x.n # 0
      [] x.ty = "null" -> FALSE
      [] x.ty = "list" -> x.l # <<>>
      [] x.ty = "dict" -> DOMAIN x.d # {}

\* d.get(k): None when the key is missing
Get(x, k) == IF k \in DOMAIN x.d THEN x.d[k] ELSE None

\* x.strip() of a str: a JSON document's text has no outer whitespace
StripText(x) == IF x.t = "chars" THEN Chars(Strip(x.s)) ELSE x

\* json.dumps(val)
JsonDumps(val) == JsonText("none", val)

\* ------------------------------------------------------------------------
\* Deterministic planner: AIGenerativeAgent._generate_simple_ai_response
\* ------------------------------------------------------------------------
search_indicators ==
    <<<<"s","e","a","r","c","h">>, <<"c","a","r","i">>, <<"c","e","k">>, <<"f","i","n","d">>, <<"l","o","o","k","u","p">>, <<"c","h","e","c","k">>, <<"w","e","a","t","h","e","r">>, <<"c","u","a","c","a">>,
      <<"g","o","o","g","l","e">>, <<"b","r","o","w","s","e">>, <<"o","p","e","n">>, <<"b","u","k","a">>, <<"u","n","t","u","k">>, <<"f","o","r">>>>
stop_words ==
    <<<<"b","u","k","a">>, <<"o","p","e","n">>, <<"f","i","r","e","f","o","x">>, <<"d","a","n">>, <<"a","n","d">>, <<"s","e","a","r","c","h">>, <<"c","a","r","i">>, <<"f","i","n","d">>, <<"l","o","o","k","u","p">>,
      <<"c","h","e","c","k">>, <<"c","e","k">>, <<"k","o","n","d","i","s","i">>, <<"u","n","t","u","k">>, <<"f","o","r">>, <<"d","i">>, <<"i","n">>>>
open_keywords == <<<<"b","u","k","a">>, <<"o","p","e","n">>, <<"j","a","l","a","n","k","a","n">>, <<"l","a","u","n","c","h">>, <<"s","t","a","r","t">>, <<"r","u","n">>>>
\* insertion order of the dict; each entry <<words of the pattern, executable, display name>>
app_patterns ==
    << << <<<<"k","a","l","k","u","l","a","t","o","r">>, <<"c","a","l","c","u","l","a","t","o","r">>, <<"c","a","l","c">>>>, <<"x","c","a","l","c">>, <<"c","a","l","c","u","l","a","t","o","r">> >>,
       << <<<<"g","e","d","i","t">>, <<"e","d","i","t","o","r">>, <<"t","e","x","t">>, <<"n","o","t","e","p","a","d">>>>, <<"g","e","d","i","t">>, <<"t","e","x","t"," ","e","d","i","t","o","r">> >>,
       << <<<<"t","e","r","m","i","n","a","l">>, <<"x","t","e","r","m">>, <<"c","o","n","s","o","l","e">>, <<"k","o","n","s","o","l","e">>>>, <<"x","t","e","r","m">>, <<"t","e","r","m","i","n","a","l">> >>,
       << <<<<"n","a","u","t","i","l","u","s">>, <<"f","i","l","e">>, <<"f","o","l","d","e","r">>, <<"m","a","n","a","g","e","r">>>>, <<"n","a","u","t","i","l","u","s">>, <<"f","i","l","e"," ","m","a","n","a","g","e","r">> >>,
       << <<<<"b","r","o","w","s","e","r">>, <<"f","i","r","e","f","o","x">>>>, <<"f","i","r","e","f","o","x","-","e","s","r">>, <<"F","i","r","e","f","o","x"," ","b","r","o","w","s","e","r">> >> >>
type_keywords == <<<<"k","e","t","i","k">>, <<"t","y","p","e">>, <<"t","u","l","i","s">>, <<"w","r","i","t","e">>, <<"i","n","p","u","t">>>>
click_keywords == <<<<"k","l","i","k">>, <<"c","l","i","c","k">>, <<"t","e","k","a","n">>, <<"p","r","e","s","s">>>>
\* insertion order of the dict; each entry <<words of the pattern, key name>>
key_patterns ==
    << << <<<<"e","n","t","e","r">>, <<"r","e","t","u","r","n">>>>, <<"R","e","t","u","r","n">> >>,
       << <<<<"e","s","c","a","p","e">>, <<"e","s","c">>>>, <<"E","s","c","a","p","e">> >>,
       << <<<<"t","a","b">>>>, <<"T","a","b">> >>,
       << <<<<"s","p","a","c","e">>, <<"s","p","a","s","i">>>>, <<"s","p","a","c","e">> >>,
       << <<<<"b","a","c","k","s","p","a","c","e">>>>, <<"B","a","c","k","S","p","a","c","e">> >>,
       << <<<<"d","e","l","e","t","e">>, <<"d","e","l">>>>, <<"D","e","l","e","t","e">> >>,
       << <<<<"u","p">>, <<"a","t","a","s">>>>, <<"U","p">> >>,
       << <<<<"d","o","w","n">>, <<"b","a","w","a","h">>>>, <<"D","o","w","n">> >>,
       << <<<<"l","e","f","t">>, <<"k","i","r","i">>>>, <<"L","e","f","t">> >>,
       << <<<<"r","i","g","h","t">>, <<"k","a","n","a","n">>>>, <<"R","i","g","h","t">> >> >>
close_keywords == <<<<"t","u","t","u","p">>, <<"c","l","o","s","e">>, <<"k","e","l","u","a","r">>, <<"e","x","i","t">>>>
maximize_keywords == <<<<"m","a","k","s","i","m","a","l">>, <<"m","a","x","i","m","i","z","e">>, <<"b","e","s","a","r">>, <<"m","a","x">>>>
scroll_keywords == <<<<"s","c","r","o","l","l">>, <<"g","u","l","i","r">>>>
scroll_down_keywords == <<<<"b","a","w","a","h">>, <<"d","o","w","n">>>>
scroll_up_keywords == <<<<"a","t","a","s">>, <<"u","p">>>>

\* json.dumps({"action": action, "commands": [...]}) for str commands
PlanText(action, commands) ==
    JsonDumps(Dict([action |-> Chars(action),
                    commands |-> List([i \in 1..Len(commands) |-> Chars(commands[i])])]))

\* the first index at which the sequence of booleans hits is TRUE, 0 when there
\* is none: the iteration at which a for loop with a test takes its branch
FirstIndex(hits) ==
    IF \E k \in 1..Len(hits) : hits[k]
    THEN CHOOSE k \in 1..Len(hits) : hits[k] /\ \A j \in 1..(k - 1) : ~hits[j]
    ELSE 0

\* lines 312-347: the input names firefox
FirefoxPlan(user_input) ==
    IF ContainsAny(user_input, search_indicators)
    THEN LET stripped == Collapse(ReplaceEach(user_input, stop_words))
             search_term == IF stripped = <<>> THEN <<"i","n","f","o","r","m","a","s","i">> ELSE stripped
         IN  PlanText(<<"O","p","e","n","i","n","g"," ","F","i","r","e","f","o","x"," ","a","n","d"," ","s","e","a","r","c","h","i","n","g"," ","f","o","r"," ">> \o search_term,
                      <<<<"D","I","S","P","L","A","Y","=",":","1"," ","f","i","r","e","f","o","x","-","e","s","r"," ","&">>,
                        <<"s","l","e","e","p"," ","5">>,
                        <<"x","d","o","t","o","o","l"," ","k","e","y"," ","c","t","r","l","+","l">>,
                        <<"s","l","e","e","p"," ","1">>,
                        <<"x","d","o","t","o","o","l"," ","t","y","p","e"," ","\"">> \o search_term \o <<"\"">>,
                        <<"x","d","o","t","o","o","l"," ","k","e","y"," ","R","e","t","u","r","n">>>>)
    ELSE PlanText(<<"O","p","e","n","i","n","g"," ","F","i","r","e","f","o","x"," ","b","r","o","w","s","e","r">>, <<<<"D","I","S","P","L","A","Y","=",":","1"," ","f","i","r","e","f","o","x","-","e","s","r"," ","&">>>>)

\* lines 363-370: the first entry of app_patterns one of whose words is in the input
AppIndex(user_input) ==
    FirstIndex([k \in 1..Len(app_patterns) |-> ContainsAny(user_input, app_patterns[k][1])])
\* lines 373-381: the first word that is no open keyword and is longer than 2
AppWordIndex(user_input) ==
    LET IsAppWord(word) ==
            (\A k \in 1..Len(open_keywords) : open_keywords[k] # word) /\ Len(word) > 2
    IN  FirstIndex([k \in 1..Len(Split(user_input)) |-> IsAppWord(Split(user_input)[k])])
\* lines 350-381: whether the open rule returns
OpenMatches(user_input) ==
    /\ ContainsAny(user_input, open_keywords)
    /\ (AppIndex(user_input) # 0 \/ AppWordIndex(user_input) # 0)
OpenPlan(user_input) ==
    IF AppIndex(user_input) # 0
    THEN LET entry == app_patterns[AppIndex(user_input)]
         IN  PlanText(<<"O","p","e","n","i","n","g"," ">> \o entry[3],
                      <<<<"D","I","S","P","L","A","Y","=",":","1"," ">> \o entry[2] \o <<" ","&">>>>)
    ELSE LET word == Split(user_input)[AppWordIndex(user_input)]
         IN  PlanText(<<"O","p","e","n","i","n","g"," ","a","p","p","l","i","c","a","t","i","o","n"," ">> \o word,
                      <<<<"D","I","S","P","L","A","Y","=",":","1"," ">> \o word \o <<" ","&">>>>)

\* lines 384-398
TextToType(user_input) == Collapse(ReplaceEach(user_input, type_keywords))
TypeMatches(user_input) ==
    ContainsAny(user_input, type_keywords) /\ TextToType(user_input) # <<>>
TypePlan(user_input) ==
    PlanText(<<"T","y","p","i","n","g"," ","t","e","x","t",":"," ">> \o TextToType(user_input),
             <<<<"x","d","o","t","o","o","l"," ","t","y","p","e"," ","\"">> \o TextToType(user_input) \o <<"\"">>>>)

\* lines 401-414
ClickMatches(user_input) ==
    ContainsAny(user_input, click_keywords) /\ FirstCoords(user_input) # <<>>
\* a click rule that clicks where the pointer is and moves it afterwards
ClickBeforeMove(user_input) ==
    LET x == FirstCoords(user_input)[1]
        y == FirstCoords(user_input)[2]
    IN  PlanText(<<"C","l","i","c","k","i","n","g"," ","a","t"," ","c","o","o","r","d","i","n","a","t","e","s"," ","(">> \o x \o <<","," ">> \o y \o <<")">>,
                 <<<<"x","d","o","t","o","o","l"," ","c","l","i","c","k"," ","1">>, <<"s","l","e","e","p"," ","1">>, <<"x","d","o","t","o","o","l"," ","m","o","u","s","e","m","o","v","e"," ">> \o x \o <<" ">> \o y>>)
ClickPlan(user_input) ==
    LET x == FirstCoords(user_input)[1]
        y == FirstCoords(user_input)[2]
    IN  PlanText(<<"C","l","i","c","k","i","n","g"," ","a","t"," ","c","o","o","r","d","i","n","a","t","e","s"," ","(">> \o x \o <<","," ">> \o y \o <<")">>,
                 <<<<"x","d","o","t","o","o","l"," ","m","o","u","s","e","m","o","v","e"," ">> \o x \o <<" ">> \o y,
                   <<"s","l","e","e","p"," ","1">>,
                   <<"x","d","o","t","o","o","l"," ","c","l","i","c","k"," ","1">>>>)

\* lines 417-437
KeyIndex(user_input) ==
    FirstIndex([k \in 1..Len(key_patterns) |-> ContainsAny(user_input, key_patterns[k][1])])
KeyPlan(user_input) ==
    LET key_name == key_patterns[KeyIndex(user_input)][2]
    IN  PlanText(<<"P","r","e","s","s","i","n","g"," ">> \o key_name \o <<" ","k","e","y">>, <<<<"x","d","o","t","o","o","l"," ","k","e","y"," ">> \o key_name>>)

\* lines 457-475: whether the scroll rule returns
ScrollMatches(user_input) ==
    /\ ContainsAny(user_input, scroll_keywords)
    /\ (ContainsAny(user_input, scroll_down_keywords)
        \/ ContainsAny(user_input, scroll_up_keywords))
ScrollPlan(user_input) ==
    IF ContainsAny(user_input, scroll_down_keywords)
    THEN PlanText(<<"S","c","r","o","l","l","i","n","g"," ","d","o","w","n">>,
                  <<<<"x","d","o","t","o","o","l"," ","c","l","i","c","k"," ","5">>, <<"x","d","o","t","o","o","l"," ","c","l","i","c","k"," ","5">>, <<"x","d","o","t","o","o","l"," ","c","l","i","c","k"," ","5">>>>)
    ELSE PlanText(<<"S","c","r","o","l","l","i","n","g"," ","u","p">>,
                  <<<<"x","d","o","t","o","o","l"," ","c","l","i","c","k"," ","4">>, <<"x","d","o","t","o","o","l"," ","c","l","i","c","k"," ","4">>, <<"x","d","o","t","o","o","l"," ","c","l","i","c","k"," ","4">>>>)

\* a planner whose last rule gives a plan of no command
SimplePlannerWithoutDefault(user_message) ==
    IF Contains(Strip(Lower(user_message.s)), <<"f","i","r","e","f","o","x">>)
    THEN FirefoxPlan(Strip(Lower(user_message.s)))
    ELSE PlanText(<<"N","e","e","d"," ","m","o","r","e"," ","s","p","e","c","i","f","i","c"," ","i","n","s","t","r","u","c","t","i","o","n","s">>, <<>>)

\* _generate_simple_ai_response(user_message): the first rule that returns
GenerateSimpleAIResponse(user_message) ==
    LET user_input == Strip(Lower(user_message.s))
    IN  IF Contains(user_input, <<"f","i","r","e","f","o","x">>) THEN FirefoxPlan(user_input)
        ELSE IF OpenMatches(user_input) THEN OpenPlan(user_input)
        ELSE IF TypeMatches(user_input) THEN TypePlan(user_input)
        ELSE IF ClickMatches(user_input) THEN ClickPlan(user_input)
        ELSE IF KeyIndex(user_input) # 0 THEN KeyPlan(user_input)
        ELSE IF ContainsAny(user_input, close_keywords)
             THEN PlanText(<<"C","l","o","s","i","n","g"," ","a","c","t","i","v","e"," ","w","i","n","d","o","w">>, <<<<"x","d","o","t","o","o","l"," ","k","e","y"," ","a","l","t","+","F","4">>>>)
        ELSE IF ContainsAny(user_input, maximize_keywords)
             THEN PlanText(<<"M","a","x","i","m","i","z","i","n","g"," ","w","i","n","d","o","w">>, <<<<"x","d","o","t","o","o","l"," ","k","e","y"," ","s","u","p","e","r","+","U","p">>>>)
        ELSE IF ScrollMatches(user_input) THEN ScrollPlan(user_input)
        ELSE IF Contains(user_input, <<"x","d","o","t","o","o","l">>)
             THEN PlanText(<<"E","x","e","c","u","t","i","n","g"," ","d","i","r","e","c","t"," ","x","d","o","t","o","o","l"," ","c","o","m","m","a","n","d">>, <<Strip(user_message.s)>>)
        ELSE PlanText(<<"N","e","e","d"," ","m","o","r","e"," ","s","p","e","c","i","f","i","c"," ","i","n","s","t","r","u","c","t","i","o","n","s">>,
                      <<<<"e","c","h","o"," ","\"","P","l","e","a","s","e"," ","p","r","o","v","i","d","e"," ","c","o","m","m","a","n","d","s"," ","l","i","k","e",":"," ","'","o","p","e","n"," ","f","i","r","e","f","o","x","'",","," ","'","t","y","p","e"," ","h","e","l","l","o"," ","w","o","r","l","d","'",","," ","'","c","l","i","c","k"," ","3","0","0"," ","2","0","0","'",","," ","'","p","r","e","s","s"," ","e","n","t","e","r","'","\"">>>>)

\* a planner that goes on from the last turn of the history
PlanFromHistory(self, user_message) ==
    IF self.conversation_history = <<>>
    THEN GenerateSimpleAIResponse(user_message)
    ELSE GenerateSimpleAIResponse(
             self.conversation_history[Len(self.conversation_history)].content)

\* self._generate_simple_ai_response(user_message): the body reads user_message
\* and its own literals, and nothing of self
SimplePlanOf(self, user_message) == GenerateSimpleAIResponse(user_message)

\* ------------------------------------------------------------------------
\* Results of calls that may raise
\* ------------------------------------------------------------------------
Return(val) == [raised |-> FALSE, value |-> val]
Raise(text) == [raised |-> TRUE, error |-> Chars(text)]

\* ------------------------------------------------------------------------
\* Plan extractor: AIGenerativeAgent._extract_xdotool_commands
\* ------------------------------------------------------------------------
\* the backquote character (U+0060) and the markdown fence marker
Backquote == "U+0060"
FenceMark == <<Backquote, Backquote, Backquote>>

\* lines 503 and 505: the replace calls act on the whole text, so they also
\* remove the markers that stand inside a string of the document
StripMarks(s, tagged) ==
    IF tagged
    THEN Replace(Replace(s, (FenceMark \o <<"j","s","o","n">>), <<>>), FenceMark, <<>>)
    ELSE Replace(s, FenceMark, <<>>)

\* the document val with the markers removed from its strings
RECURSIVE Unmark(_, _)
Unmark(val, tagged) ==
    CASE val.ty = "str" /\ val.t = "chars" -> Chars(StripMarks(val.s, tagged))
      [] val.ty = "list" -> List([i \in 1..Len(val.l) |-> Unmark(val.l[i], tagged)])
      [] val.ty = "dict" -> Dict([k \in DOMAIN val.d |-> Unmark(val.d[k], tagged)])
      [] OTHER -> val

\* lines 501-505: ai_response.strip() with the markdown fence removed.  A fence
\* tagged json and a fence with no tag leave the document; after any other
\* language tag the tag line stays in front of the document ("tagline").
CleanResponse(ai_response) ==
    IF ai_response.t = "json"
    THEN CASE ai_response.fence = "json" -> JsonText("none", Unmark(ai_response.v, TRUE))
           [] ai_response.fence = "bare" -> JsonText("none", Unmark(ai_response.v, FALSE))
           [] ai_response.fence = "tag" -> JsonText("tagline", ai_response.v)
           [] OTHER -> ai_response
    ELSE LET clean_response == Strip(ai_response.s)
         IN  IF StartsWith(clean_response, (FenceMark \o <<"j","s","o","n">>))
             THEN Chars(Strip(Replace(Replace(clean_response, (FenceMark \o <<"j","s","o","n">>), <<>>), FenceMark, <<>>)))
             ELSE IF StartsWith(clean_response, FenceMark)
                  THEN Chars(Strip(Replace(clean_response, FenceMark, <<>>)))
                  ELSE Chars(clean_response)

\* json.loads(text): only the bare text of a JSON document parses; the plain
\* character texts of this model are not JSON documents
JsonLoads(text) ==
    IF text.t = "json" /\ text.fence = "none"
    THEN Return(text.v)
    ELSE Raise(<<"E","x","p","e","c","t","i","n","g"," ","v","a","l","u","e",":"," ","l","i","n","e"," ","1"," ","c","o","l","u","m","n"," ","1"," ","(","c","h","a","r"," ","0",")">>)

\* len(x): raises TypeError for a value that has no length
HasLen(x) == x.ty \in {"str", "list", "dict"}

\* type(x).__name__, as the TypeError of len(x) prints it
TypeName(x) == IF x.ty = "null" THEN <<"N","o","n","e","T","y","p","e">> ELSE <<"i","n","t">>

\* the position of the first occurrence of p in s at or after i, 0 when none
FindFrom(s, p, i) ==
    IF \E k \in i..(Len(s) - Len(p) + 1) : SubSeq(s, k, k + Len(p) - 1) = p
    THEN CHOOSE k \in i..(Len(s) - Len(p) + 1) :
             /\ SubSeq(s, k, k + Len(p) - 1) = p
             /\ \A j \in i..(k - 1) : SubSeq(s, j, j + Len(p) - 1) # p
    ELSE 0

\* re.findall(r'<xdotool>(.*?)</xdotool>', s, re.DOTALL) from position i on
RECURSIVE LegacyMatches(_, _)
LegacyMatches(s, i) ==
    LET open == FindFrom(s, <<"<","x","d","o","t","o","o","l",">">>, i)
        close == IF open = 0 THEN 0
                 ELSE FindFrom(s, <<"<","/","x","d","o","t","o","o","l",">">>, open + Len(<<"<","x","d","o","t","o","o","l",">">>))
    IN  IF open = 0 \/ close = 0 THEN <<>>
        ELSE <<SubSeq(s, open + Len(<<"<","x","d","o","t","o","o","l",">">>), close - 1)>>
             \o LegacyMatches(s, close + Len(<<"<","/","x","d","o","t","o","o","l",">">>))

\* a legacy extraction that keeps the segments that are blank
LegacyWithBlanks(ai_response) ==
    IF ai_response.t = "json" THEN <<>>
    ELSE [k \in 1..Len(LegacyMatches(ai_response.s, 1)) |->
             Chars(Strip(LegacyMatches(ai_response.s, 1)[k]))]

\* lines 517-525: the trimmed, non-empty legacy segments in document order.
\* The text of a JSON document is taken to hold no <xdotool> segment.
LegacyCommands(ai_response) ==
    IF ai_response.t = "json" THEN <<>>
    ELSE LET matches == LegacyMatches(ai_response.s, 1)
         IN  [k \in 1..Len(SelectSeq(matches, LAMBDA m : Strip(m) # <<>>)) |->
                 Chars(Strip(SelectSeq(matches, LAMBDA m : Strip(m) # <<>>)[k]))]

\* _extract_xdotool_commands(ai_response): the value returned, or the
\* exception that escapes (only JSONDecodeError and KeyError are caught)
ExtractXdotoolCommands(ai_response) ==
    LET data == JsonLoads(CleanResponse(ai_response))
    IN  IF ~data.raised /\ IsDict(data.value) /\ "commands" \in DOMAIN data.value.d
        THEN IF HasLen(data.value.d["commands"])
             THEN Return(data.value.d["commands"])
             ELSE Raise(<<"o","b","j","e","c","t"," ","o","f"," ","t","y","p","e"," ","'">> \o TypeName(data.value.d["commands"])
                        \o <<"'"," ","h","a","s"," ","n","o"," ","l","e","n","(",")">>)
        ELSE Return(List(LegacyCommands(ai_response)))

\* for cmd in xdotool_commands: the values the loop binds cmd to (a list gives
\* its elements, a str its characters)
Elements(x) ==
    CASE x.ty = "list" -> x.l
      [] x.ty = "str" /\ x.t = "chars" -> [i \in 1..Len(x.s) |-> Chars(<<x.s[i]>>)]
      [] OTHER -> <<>>

\* ------------------------------------------------------------------------
\* Generative planner: AIGenerativeAgent._generate_ai_response
\* ------------------------------------------------------------------------
\* lines 92-221: the fixed system instruction (its first sentence stands for
\* the whole text, which no code reads)
system_prompt ==
    Chars(<<"Y","o","u"," ","a","r","e"," ","a","n"," ","A","I"," ","a","s","s","i","s","t","a","n","t"," ","t","h","a","t"," ","c","o","n","t","r","o","l","s"," ","a"," ","c","o","m","p","u","t","e","r"," ","d","e","s","k","t","o","p"," ","e","n","v","i","r","o","n","m","e","n","t"," ","t","h","r","o","u","g","h"," ","x","d","o","t","o","o","l"," ","c","o","m","m","a","n","d","s",".">>)

\* the number of entries of the history the backend is sent (line 229)
HistoryWindow == 5

\* line 229: self.conversation_history[-5:]
RecentHistory(conversation_history) ==
    IF Len(conversation_history) > HistoryWindow
    THEN SubSeq(conversation_history, Len(conversation_history) - HistoryWindow + 1,
                Len(conversation_history))
    ELSE conversation_history

\* lines 224-240 and 250-256: payload["messages"] for the history the agent
\* has when _generate_ai_response is called
BackendMessages(conversation_history, user_message) ==
    <<[role |-> "system", content |-> system_prompt]>>
    \o [i \in 1..Len(RecentHistory(conversation_history)) |->
           [role |-> RecentHistory(conversation_history)[i].role,
            content |-> RecentHistory(conversation_history)[i].content]]
    \o <<[role |-> "user", content |-> user_message]>>

\* a or b
Or(a, b) == IF Truthy(a) THEN a ELSE b

\* lines 270-288: the content the shape probe finds in the parsed body
ProbeContent(data) ==
    IF ~IsDict(data) THEN None
    ELSE IF IsList(Get(data, "content")) /\ Truthy(Get(data, "content"))
         THEN LET first_content == Get(data, "content").l[1]
              IN  IF IsDict(first_content) /\ Get(first_content, "type") = Chars(<<"t","e","x","t">>)
                  THEN Get(first_content, "text")
                  ELSE None
    ELSE IF IsStr(Get(data, "content")) THEN Get(data, "content")
    ELSE IF IsList(Get(data, "messages")) /\ Truthy(Get(data, "messages"))
         THEN LET last == Get(data, "messages").l[Len(Get(data, "messages").l)]
              IN  IF IsDict(last) /\ Get(last, "role") = Chars(<<"a","s","s","i","s","t","a","n","t">>)
                  THEN Get(last, "content")
                  ELSE None
    ELSE IF IsList(Get(data, "choices")) /\ Truthy(Get(data, "choices"))
         THEN LET choice == Get(data, "choices").l[1]
              IN  IF IsDict(choice)
                  THEN LET msg == Or(Get(choice, "message"), Get(choice, "delta"))
                       IN  IF IsDict(msg) THEN Get(msg, "content") ELSE None
                  ELSE None
    ELSE None

\* lines 267-298: what the planner returns for the reply body raw; None when
\* control leaves the try block without a return
ProbeReply(raw) ==
    LET data == JsonLoads(raw)
        content == ProbeContent(data.value)
    IN  IF data.raised
        THEN IF Truthy(StripText(raw)) THEN raw ELSE None
        ELSE IF Truthy(content) /\ IsStr(content) /\ Truthy(StripText(content))
             THEN content
             ELSE IF Truthy(StripText(raw)) THEN raw ELSE None

\* line 243: settings.API_PROVIDER.lower() == "comet" and settings.COMET_API_KEY
BackendEnabled(settings) ==
    Lower(settings.API_PROVIDER) = <<"c","o","m","e","t">> /\ settings.COMET_API_KEY # <<>>

\* a planner that hands the text of the exception to its caller
GenerateWithoutFallback(settings, user_message, outcome) ==
    IF BackendEnabled(settings) /\ outcome.kind = "error"
    THEN outcome.text
    ELSE IF BackendEnabled(settings) /\ outcome.kind = "response"
                                     /\ ProbeReply(outcome.raw) # None
         THEN ProbeReply(outcome.raw)
         ELSE GenerateSimpleAIResponse(user_message)

\* _generate_ai_response(user_message) when the call of the backend ends with
\* `outcome`: an exception raised by conn.request/getresponse/read, or a reply.
\* The status of the reply is logged and never tested.
GenerateAIResponse(settings, user_message, outcome) ==
    IF BackendEnabled(settings) /\ outcome.kind = "response"
                                /\ ProbeReply(outcome.raw) # None
    THEN ProbeReply(outcome.raw)
    ELSE GenerateSimpleAIResponse(user_message)

\* ------------------------------------------------------------------------
\* Dispatcher: AIGenerativeAgent._execute_xdotool_command
\* ------------------------------------------------------------------------
\* lines 531-535: the body of the request, json={"command": command}
PostBody(command) == JsonDumps(Dict([command |-> command]))

\* the text of a string in a JSON document: quotes, backslashes and newlines
\* are escaped
RECURSIVE Escape(_)
Escape(s) ==
    IF s = <<>> THEN <<>>
    ELSE (CASE Head(s) = "\"" -> <<"\\","\"">>
            [] Head(s) = "\\" -> <<"\\","\\">>
            [] Head(s) = "\n" -> <<"\\","n">>
            [] OTHER -> <<Head(s)>>) \o Escape(Tail(s))

\* the body of an error reply, a JSON object of one key as json.dumps (vnc_api.py
\* line 106) or the JSON response of the framework (executor.py line 39) writes
\* it; the dispatcher reads the body of such a reply as text only
ErrorBody(key, separator, text) ==
    Chars(<<"{","\"">> \o key \o <<"\"">> \o separator \o <<"\"">> \o Escape(text) \o <<"\"","}">>)

\* vnc_api.py, VNCCommandHandler.handle_execute, the service that listens on
\* port 8090, where the dispatcher posts (vnc_api_base, line 27): its reply to the request body post_data when subprocess.run of
\* the command ends with `run` (an exit with status and captured output, or
\* the timeout of 30 seconds)
HandleExecute(post_data, run) ==
    LET data == JsonLoads(post_data)
    IN  IF data.raised
        THEN [kind |-> "response", status |-> 400,
              body |-> ErrorBody(<<"e","r","r","o","r">>, <<":"," ">>, <<"I","n","v","a","l","i","d"," ","J","S","O","N",":"," ">> \o data.error)]
        ELSE IF ~Truthy(IF "command" \in DOMAIN data.value.d
                        THEN data.value.d["command"] ELSE Chars(<<>>))
        THEN [kind |-> "response", status |-> 400,
              body |-> ErrorBody(<<"e","r","r","o","r">>, <<":"," ">>, <<"N","o"," ","c","o","m","m","a","n","d"," ","p","r","o","v","i","d","e","d">>)]
        ELSE IF run.kind = "timeout"
        THEN [kind |-> "response", status |-> 500,
              body |-> ErrorBody(<<"e","r","r","o","r">>, <<":"," ">>, run.text)]
        ELSE [kind |-> "response", status |-> 200,
              body |-> JsonDumps(Dict([stdout |-> Chars(run.stdout),
                                       stderr |-> Chars(run.stderr),
                                       returncode |-> Num(run.returncode),
                                       success |-> Bool(run.returncode = 0)]))]

\* executor.py, proxy_execute, the route /vnc/execute of the backend itself:
\* its reply when docker exec of the command ends with `run`
ProxyExecute(command, run) ==
    IF run.kind = "timeout"
    THEN [kind |-> "response", status |-> 500,
          body |-> ErrorBody(<<"d","e","t","a","i","l">>, <<":">>, run.text)]
    ELSE [kind |-> "response", status |-> 200,
          body |-> JsonDumps(Dict([return_code |-> Num(run.returncode),
                                   output |-> Chars(run.stdout),
                                   error |-> Chars(run.stderr)]))]

\* a dispatcher that takes every 2xx reply for a success
ExecuteAny2xx(command, reply) ==
    IF reply.kind = "response" /\ reply.status \in 200..299
    THEN [command |-> command, success |-> TRUE, return_code |-> Num(0),
          output |-> Chars(<<>>), error |-> Chars(<<>>)]
    ELSE [command |-> command, success |-> FALSE, error |-> Chars(<<>>)]

\* a dispatcher that reads every reply as the reply of a command that ran
ExecuteIgnoringStatus(command, reply) ==
    [command |-> command, success |-> TRUE, return_code |-> Num(0),
     output |-> Chars(<<>>), error |-> Chars(<<>>)]

\* _execute_xdotool_command(command) when requests.post ends with `reply`: an
\* exception (transport error, timeout) or a response with a status and a body
ExecuteXdotoolCommand(command, reply) ==
    IF reply.kind = "exception"
    THEN [command |-> command, success |-> FALSE, error |-> reply.text]
    ELSE IF reply.status = 200
         THEN LET result == JsonLoads(reply.body)
              IN  IF result.raised
                  THEN [command |-> command, success |-> FALSE, error |-> result.error]
                  ELSE IF ~IsDict(result.value)
                       THEN [command |-> command, success |-> FALSE,
                             error |-> Chars(<<"'","l","i","s","t","'"," ","o","b","j","e","c","t"," ","h","a","s"," ","n","o"," ","a","t","t","r","i","b","u","t","e"," ","'","g","e","t","'">>)]
                       ELSE [command |-> command, success |-> TRUE,
                             return_code |-> IF "return_code" \in DOMAIN result.value.d
                                             THEN result.value.d["return_code"] ELSE Num(0),
                             output |-> IF "output" \in DOMAIN result.value.d
                                        THEN result.value.d["output"] ELSE Chars(<<>>),
                             error |-> IF "error" \in DOMAIN result.value.d
                                       THEN result.value.d["error"] ELSE Chars(<<>>)]
         ELSE [command |-> command, success |-> FALSE,
               error |-> Chars(<<"H","T","T","P"," ">> \o IntToStr(reply.status) \o <<":"," ">> \o reply.body.s)]

\* ------------------------------------------------------------------------
\* Report composer: AIGenerativeAgent._generate_execution_report
\* ------------------------------------------------------------------------
\* the character that marks a successful (U+2705) and a failed (U+274C) command
CheckMark == "U+2705"
CrossMark == "U+274C"

\* s[:n]
Prefix(s, n) == SubSeq(s, 1, IF Len(s) < n THEN Len(s) ELSE n)

\* lines 569-582: the description in the header
ActionDescription(ai_response) ==
    LET data == JsonLoads(CleanResponse(ai_response))
    IN  IF ~data.raised /\ IsDict(data.value) /\ "action" \in DOMAIN data.value.d
        THEN data.value.d["action"]
        ELSE Chars(<<"C","o","m","m","a","n","d"," ","e","x","e","c","u","t","i","o","n">>)

\* str(x) inside an f-string, for the values the model formats
Format(x) ==
    CASE x.ty = "str" /\ x.t = "chars" -> x.s
      [] x.ty = "num" -> IntToStr(x.n)
      [] x.ty = "null" -> <<"N","o","n","e">>
      [] OTHER -> <<".",".",".">>

\* lines 590-597: whether formatting the line of `result` raises
LineRaises(result) ==
    \/ ~HasLen(result.command)
    \/ result.success /\ Truthy(result.output) /\ ~IsStr(result.output)

\* a line that shows the whole command and the whole output or error
ReportLineInFull(result, i) ==
    IF result.success
    THEN <<CheckMark>> \o <<" ","C","o","m","m","a","n","d"," ">> \o IntToStr(i) \o <<":"," ">> \o Format(result.command) \o <<"\n">>
         \o (IF Truthy(result.output)
             THEN <<" "," "," ","O","u","t","p","u","t",":"," ">> \o Strip(Format(result.output)) \o <<"\n">>
             ELSE <<>>)
    ELSE <<CrossMark>> \o <<" ","C","o","m","m","a","n","d"," ">> \o IntToStr(i) \o <<":"," ">> \o Format(result.command) \o <<"\n">>
         \o <<" "," "," ","E","r","r","o","r",":"," ">> \o Format(result.error) \o <<"\n">>

\* lines 590-597: the text appended to the report for the i-th result
ReportLine(result, i) ==
    LET cmd_short == IF Len(Format(result.command)) > 50
                     THEN Prefix(Format(result.command), 50) \o <<".",".",".">>
                     ELSE Format(result.command)
    IN  IF result.success
        THEN <<CheckMark>> \o <<" ","C","o","m","m","a","n","d"," ">> \o IntToStr(i) \o <<":"," ">> \o cmd_short \o <<"\n">>
             \o (IF Truthy(result.output)
                 THEN <<" "," "," ","O","u","t","p","u","t",":"," ">> \o Prefix(Strip(Format(result.output)), 100) \o <<"\n">>
                 ELSE <<>>)
        ELSE <<CrossMark>> \o <<" ","C","o","m","m","a","n","d"," ">> \o IntToStr(i) \o <<":"," ">> \o cmd_short \o <<"\n">>
             \o <<" "," "," ","E","r","r","o","r",":"," ">> \o Prefix(Format(result.error), 100) \o <<"\n">>

RECURSIVE ReportLines(_, _)
ReportLines(results, i) ==
    IF i > Len(results) THEN <<>>
    ELSE ReportLine(results[i], i) \o ReportLines(results, i + 1)

\* a count that takes every outcome for a success
CountAll(results) == Len(results)

\* sum(1 for r in results if r.get("success", False))
Successful(results) == Cardinality({i \in 1..Len(results) : results[i].success})

\* a composer that writes the header for every command list
ReportWithoutShortCircuit(commands, results, ai_response) ==
    Return(Chars(<<"[","R","E","P","O","R","T","]",":"," ">> \o Format(ActionDescription(ai_response))
                 \o <<" ","-"," ">> \o IntToStr(Successful(results)) \o <<" ","s","u","c","c","e","s","s","f","u","l",","," ">>
                 \o IntToStr(Len(results) - Successful(results)) \o <<" ","f","a","i","l","e","d","\n">>
                 \o ReportLines(results, 1)))

\* _generate_execution_report(commands, results, ai_response)
GenerateExecutionReport(commands, results, ai_response) ==
    IF ~Truthy(commands)
    THEN Return(Chars(<<"[","R","E","P","O","R","T","]",":"," ","N","o"," ","c","o","m","m","a","n","d","s"," ","t","o"," ","e","x","e","c","u","t","e",".">>))
    ELSE IF \E i \in 1..Len(results) : LineRaises(results[i])
         THEN LET bad == FirstIndex([i \in 1..Len(results) |-> LineRaises(results[i])])
              IN  IF HasLen(results[bad].command)
                  THEN Raise(<<"'","i","n","t","'"," ","o","b","j","e","c","t"," ","h","a","s"," ","n","o"," ","a","t","t","r","i","b","u","t","e"," ","'","s","t","r","i","p","'">>)
                  ELSE Raise(<<"o","b","j","e","c","t"," ","o","f"," ","t","y","p","e"," ","'","i","n","t","'"," ","h","a","s"," ","n","o"," ","l","e","n","(",")">>)
         ELSE Return(Chars(<<"[","R","E","P","O","R","T","]",":"," ">> \o Format(ActionDescription(ai_response))
                           \o <<" ","-"," ">> \o IntToStr(Successful(results)) \o <<" ","s","u","c","c","e","s","s","f","u","l",","," ">>
                           \o IntToStr(Len(results) - Successful(results)) \o <<" ","f","a","i","l","e","d","\n">>
                           \o ReportLines(results, 1)))

\* ------------------------------------------------------------------------
\* Bounds and inputs
\* ------------------------------------------------------------------------
\* the number of chat requests a behaviour sends
NumRequests == 2

Requests == 1..NumRequests

\* request.session_id is None
NoSessionId == 0

\* the texts the clients send, in the order they send them
UserMessages == <<Chars(<<"o","p","e","n"," ","c","a","l","c","u","l","a","t","o","r">>), Chars(<<"p","r","e","s","s"," ","e","n","t","e","r">>)>>

\* settings (backend/app/core/config.py) when the environment sets nothing:
\* the provider comet and no credential
DefaultSettings == [API_PROVIDER |-> <<"c","o","m","e","t">>, COMET_API_KEY |-> <<>>]

\* the provider and the credential the environment can configure
Configurations ==
    <<[API_PROVIDER |-> <<"c","o","m","e","t">>, COMET_API_KEY |-> <<"s","k","-","t","e","s","t">>],
      DefaultSettings,
      [API_PROVIDER |-> <<"a","n","t","h","r","o","p","i","c">>, COMET_API_KEY |-> <<"s","k","-","t","e","s","t">>]>>

\* a plan of two commands, as the backend writes it
TwoCommands ==
    Dict([action |-> Chars(<<"P","r","e","s","s","i","n","g"," ","R","e","t","u","r","n">>),
          commands |-> List(<<Chars(<<"x","d","o","t","o","o","l"," ","k","e","y"," ","R","e","t","u","r","n">>), Chars(<<"s","l","e","e","p"," ","1">>)>>)])
\* a plan one of whose commands is a number
NumberCommand ==
    Dict([action |-> Chars(<<"P","r","e","s","s","i","n","g"," ","R","e","t","u","r","n">>),
          commands |-> List(<<Chars(<<"x","d","o","t","o","o","l"," ","k","e","y"," ","R","e","t","u","r","n">>), Num(7)>>)])
\* a plan whose "commands" is a number
NumberPlan == Dict([action |-> Chars(<<"P","r","e","s","s","i","n","g"," ","R","e","t","u","r","n">>), commands |-> Num(5)])

\* the body of a reply of the content-block shape whose text is `text`
ContentBlocks(text) ==
    JsonDumps(Dict([content |-> List(<<Dict([type |-> Chars(<<"t","e","x","t">>), text |-> text])>>)]))

\* how a call of the generative backend can end
BackendOutcomes ==
    <<[kind |-> "error", text |-> Chars(<<"[","E","r","r","n","o"," ","1","1","1","]"," ","C","o","n","n","e","c","t","i","o","n"," ","r","e","f","u","s","e","d">>)],
      [kind |-> "silent"],
      [kind |-> "response", status |-> 200,
       raw |-> ContentBlocks(JsonText("json", TwoCommands))],
      [kind |-> "response", status |-> 200,
       raw |-> ContentBlocks(JsonText("none", NumberCommand))],
      [kind |-> "response", status |-> 200,
       raw |-> ContentBlocks(JsonText("none", NumberPlan))],
      [kind |-> "response", status |-> 502,
       raw |-> Chars(<<"<","h","t","m","l",">","5","0","2"," ","B","a","d"," ","G","a","t","e","w","a","y","<","/","h","t","m","l",">">>)],
      [kind |-> "response", status |-> 401,
       raw |-> JsonDumps(Dict([error |-> Dict([message |-> Chars(<<"I","n","v","a","l","i","d"," ","A","P","I"," ","k","e","y">>)])]))],
      [kind |-> "response", status |-> 200, raw |-> Chars(<<>>)]>>

\* no call of the backend is made (the backend is disabled)
NoCall == [kind |-> "none"]

\* how a call of the execution boundary can end
BoundaryReplies ==
    <<[kind |-> "response", status |-> 200,
       body |-> JsonDumps(Dict([return_code |-> Num(0), output |-> Chars(<<>>),
                                error |-> Chars(<<>>)]))],
      [kind |-> "response", status |-> 500, body |-> Chars(<<"I","n","t","e","r","n","a","l"," ","S","e","r","v","e","r"," ","E","r","r","o","r">>)],
      [kind |-> "exception", text |-> Chars(<<"R","e","a","d"," ","t","i","m","e","d"," ","o","u","t","."," ","(","r","e","a","d"," ","t","i","m","e","o","u","t","=","3","0",")">>)]>>

\* ------------------------------------------------------------------------
\* State
\* ------------------------------------------------------------------------
VARIABLES
    settings,       \* app.core.config.settings
    db_sessions,    \* the ids of the rows of the sessions table
    db_messages,    \* the rows of the messages table, in commit order
    active_agents,  \* simple_chat.active_agents: session id -> index into agents
    agents,         \* every AIGenerativeAgent constructed, in construction order
    req,            \* the chat_endpoint call of each request: its position, its
                    \* locals and those of the process_message it calls, how its
                    \* call of the backend ended (outcome), what it sent to the
                    \* backend (payload) and the calls it made to the execution
                    \* boundary with their replies (boundary_calls)
    running         \* the request whose process_message holds the event loop, or 0

vars == <<settings, db_sessions, db_messages, active_agents, agents, req, running>>

\* the locals of a chat_endpoint call that has not started or has returned
NoLocals ==
    [message |-> None, request_session_id |-> NoSessionId, session_id |-> NoSessionId,
     agent |-> 0, outcome |-> None, ai_response |-> None, xdotool_commands |-> None,
     payload |-> None, boundary_calls |-> <<>>, execution_results |-> <<>>, result |-> None]

Init ==
    /\ settings \in {Configurations[k] : k \in 1..Len(Configurations)}
    /\ db_sessions = {}
    /\ db_messages = <<>>
    /\ active_agents = <<>>
    /\ agents = <<>>
    /\ req = [r \in Requests |-> [pc |-> "idle"] @@ NoLocals]
    /\ running = 0

\* the event loop runs one coroutine at a time, and process_message never
\* awaits anything that suspends (http.client and requests block the thread)
LoopFree == running = 0

\* self.conversation_history of the agent that serves request r
History(r) == agents[req[r].agent].conversation_history

\* ------------------------------------------------------------------------
\* chat_endpoint (simple_chat.py), one action per block between two awaits
\* ------------------------------------------------------------------------
\* the text of request r: the clients send the texts of UserMessages in turn
MessageOf(r) == UserMessages[((r - 1) % Len(UserMessages)) + 1]

\* POST /chat arrives with a message and a session id the client knows (or none)
Arrive(r) ==
    /\ LoopFree
    /\ req[r].pc = "idle"
    /\ \A q \in Requests : q < r => req[q].pc # "idle"
    /\ \E sid \in db_sessions \cup {NoSessionId} :
           req' = [req EXCEPT ![r] = [@ EXCEPT !.pc = "get_session",
                                              !.message = MessageOf(r),
                                              !.request_session_id = sid]]
    /\ UNCHANGED <<settings, db_sessions, db_messages, active_agents, agents, running>>

\* uuid.uuid4() of SessionService.create_session: an id no session has
NewSessionId == Cardinality(db_sessions) + 1

\* lines 48-57: the session of the request: the one it names if the table has
\* it, a new one otherwise (no chat request deletes a session)
ResolveSession(r) ==
    /\ LoopFree
    /\ req[r].pc = "get_session"
    /\ IF req[r].request_session_id # NoSessionId
          /\ req[r].request_session_id \in db_sessions
       THEN /\ req' = [req EXCEPT ![r] = [@ EXCEPT !.pc = "get_agent",
                                                   !.session_id = req[r].request_session_id]]
            /\ UNCHANGED db_sessions
       ELSE /\ req' = [req EXCEPT ![r] = [@ EXCEPT !.pc = "get_agent",
                                                   !.session_id = NewSessionId]]
            /\ db_sessions' = db_sessions \cup {NewSessionId}
    /\ UNCHANGED <<settings, db_messages, active_agents, agents, running>>

\* AIGenerativeAgent.__init__(session_id)
NewAgent(session_id) == [session_id |-> session_id, conversation_history |-> <<>>]

\* an endpoint that constructs an agent for every request
AlwaysCreate(session_id) == TRUE

\* lines 60-64: whether chat_endpoint constructs an agent for session_id
MustCreateAgent(session_id) == session_id \notin DOMAIN active_agents

\* lines 59-72: get or create the agent, then start saving the user message
GetOrCreateAgent(r) ==
    /\ LoopFree
    /\ req[r].pc = "get_agent"
    /\ IF MustCreateAgent(req[r].session_id)
       THEN /\ agents' = Append(agents, NewAgent(req[r].session_id))
            /\ active_agents' = (req[r].session_id :> (Len(agents) + 1)) @@ active_agents
            /\ req' = [req EXCEPT ![r] = [@ EXCEPT !.pc = "save_user",
                                                   !.agent = Len(agents) + 1]]
       ELSE /\ req' = [req EXCEPT ![r] = [@ EXCEPT !.pc = "save_user",
                                                   !.agent = active_agents[req[r].session_id]]]
            /\ UNCHANGED <<agents, active_agents>>
    /\ UNCHANGED <<settings, db_sessions, db_messages, running>>

\* MessageService.create_message: the row the commit adds.  turn names the
\* request whose message (role user) or response (role assistant) is the content.
MessageRow(r, role) == [session_id |-> req[r].session_id, role |-> role, turn |-> r]

\* line 72: the commit of the user message
SaveUserMessage(r) ==
    /\ LoopFree
    /\ req[r].pc = "save_user"
    /\ db_messages' = Append(db_messages, MessageRow(r, "user"))
    /\ req' = [req EXCEPT ![r] = [@ EXCEPT !.pc = "process"]]
    /\ UNCHANGED <<settings, db_sessions, active_agents, agents, running>>

\* ------------------------------------------------------------------------
\* AIGenerativeAgent.process_message, entered from line 77 of chat_endpoint
\* ------------------------------------------------------------------------
\* conversation_history = [entry] of the agent of request r
ReplaceHistory(r, entry) ==
    [agents EXCEPT ![req[r].agent].conversation_history = <<entry>>]

\* conversation_history.append(entry) of the agent of request r
AppendHistory(r, entry) ==
    [agents EXCEPT ![req[r].agent].conversation_history = Append(@, entry)]

\* lines 36-40: the entry of the user turn (the timestamp is never read)
UserEntry(user_message) == [role |-> "user", content |-> user_message]

\* lines 60-66: the entry of the assistant turn
AssistantEntry(ai_response, xdotool_commands, execution_results) ==
    [role |-> "assistant", content |-> ai_response,
     commands_suggested |-> xdotool_commands, execution_results |-> execution_results]

\* a result that reports a caught exception as a success
SwallowedFailure(error) ==
    [success |-> TRUE, response |-> Chars(<<>>), actions_taken |-> List(<<>>),
     error |-> error]

\* lines 79-86: the result of the except branch
FailureResult(error) ==
    [success |-> FALSE, response |-> Chars(<<"A","I"," ","A","g","e","n","t"," ","e","r","r","o","r",":"," ">> \o error.s),
     actions_taken |-> List(<<>>), error |-> error]

\* lines 69-77: the result of a turn that raised nothing
SuccessResult(ai_response, xdotool_commands, execution_results, execution_report) ==
    [success |-> TRUE,
     response |-> [ty |-> "str", t |-> "concat",
                   parts |-> <<ai_response, Chars(<<"\n","\n">>), execution_report>>],
     actions_taken |-> xdotool_commands,
     execution_results |-> execution_results,
     ai_reasoning |-> ai_response]

\* how the call of the backend made for this turn can end
PossibleOutcomes ==
    IF BackendEnabled(settings)
    THEN {BackendOutcomes[k] : k \in 1..Len(BackendOutcomes)}
    ELSE {NoCall}

\* lines 79-86: the locals of a call whose process_message caught `error`
Failed(locals, error) ==
    [locals EXCEPT !.pc = "save_assistant", !.result = FailureResult(error)]

\* lines 33-46: the turn starts: the user message is appended to the history,
\* _generate_ai_response is called and the commands are extracted from what it
\* returns.  HTTPSConnection is created with no timeout: when the backend stays
\* silent getresponse() never returns.
ProcessMessage(r) ==
    /\ LoopFree
    /\ req[r].pc = "process"
    /\ agents' = AppendHistory(r, UserEntry(req[r].message))
    /\ \E outcome \in PossibleOutcomes :
           LET ai_response == GenerateAIResponse(settings, req[r].message, outcome)
               extracted == ExtractXdotoolCommands(ai_response)
               called == [req[r] EXCEPT
                             !.outcome = outcome,
                             !.payload =
                                 IF BackendEnabled(settings)
                                 THEN [messages |->
                                          BackendMessages(agents'[req[r].agent].conversation_history,
                                                          req[r].message)]
                                 ELSE None]
           IN  IF outcome.kind = "silent"
               THEN /\ req' = [req EXCEPT ![r] = [called EXCEPT !.pc = "await_backend"]]
                    /\ running' = r
               ELSE IF extracted.raised
               THEN /\ req' = [req EXCEPT ![r] =
                                  Failed([called EXCEPT !.ai_response = ai_response],
                                         extracted.error)]
                    /\ running' = 0
               ELSE /\ req' = [req EXCEPT ![r] =
                                  [called EXCEPT !.pc = "dispatch",
                                                 !.ai_response = ai_response,
                                                 !.xdotool_commands = extracted.value]]
                    /\ running' = r
    /\ UNCHANGED <<settings, db_sessions, db_messages, active_agents>>

\* a loop that sends every command twice
DuplicateEach(xdotool_commands) ==
    [i \in 1..(2 * Len(Elements(xdotool_commands))) |->
        Elements(xdotool_commands)[(i + 1) \div 2]]

\* a loop that takes the commands last to first
ReverseOrder(xdotool_commands) ==
    [i \in 1..Len(Elements(xdotool_commands)) |->
        Elements(xdotool_commands)[Len(Elements(xdotool_commands)) + 1 - i]]

\* lines 50-52: the commands the loop of the turn iterates over, in order
ToDispatch(xdotool_commands) ==
    IF Truthy(xdotool_commands) THEN Elements(xdotool_commands) ELSE <<>>

\* a loop that a failed outcome ends
PendingUntilFailure(xdotool_commands, execution_results) ==
    IF \E i \in 1..Len(execution_results) : ~execution_results[i].success
    THEN <<>>
    ELSE SubSeq(ToDispatch(xdotool_commands), Len(execution_results) + 1,
                Len(ToDispatch(xdotool_commands)))

\* lines 52-54: the commands the loop has yet to take when it has appended
\* execution_results (the body has no break, and _execute_xdotool_command
\* catches every Exception)
Pending(xdotool_commands, execution_results) ==
    SubSeq(ToDispatch(xdotool_commands), Len(execution_results) + 1,
           Len(ToDispatch(xdotool_commands)))

\* lines 52-54: one iteration of the loop: the next command is sent to the
\* execution boundary and its outcome appended
Dispatch(r) ==
    /\ running = r
    /\ req[r].pc = "dispatch"
    /\ Pending(req[r].xdotool_commands, req[r].execution_results) # <<>>
    /\ \E k \in 1..Len(BoundaryReplies) :
           LET cmd == Head(Pending(req[r].xdotool_commands, req[r].execution_results))
           IN  req' = [req EXCEPT ![r] =
                          [@ EXCEPT !.boundary_calls =
                                        Append(@, [command |-> cmd,
                                                   reply |-> BoundaryReplies[k]]),
                                    !.execution_results =
                                        Append(@, ExecuteXdotoolCommand(cmd, BoundaryReplies[k]))]]
    /\ UNCHANGED <<settings, db_sessions, db_messages, active_agents, agents, running>>

\* lines 57-77 after the loop, and lines 79-86 when the report raises
Finish(r) ==
    /\ running = r
    /\ req[r].pc = "dispatch"
    /\ Pending(req[r].xdotool_commands, req[r].execution_results) = <<>>
    /\ LET execution_report ==
               GenerateExecutionReport(req[r].xdotool_commands, req[r].execution_results,
                                       req[r].ai_response)
       IN  IF execution_report.raised
           THEN /\ req' = [req EXCEPT ![r] = Failed(req[r], execution_report.error)]
                /\ UNCHANGED agents
           ELSE /\ req' = [req EXCEPT ![r] =
                              [@ EXCEPT !.pc = "save_assistant",
                                        !.result = SuccessResult(req[r].ai_response,
                                                                 req[r].xdotool_commands,
                                                                 req[r].execution_results,
                                                                 execution_report.value)]]
                /\ agents' = AppendHistory(r, AssistantEntry(req[r].ai_response,
                                                             req[r].xdotool_commands,
                                                             req[r].execution_results))
    /\ running' = 0
    /\ UNCHANGED <<settings, db_sessions, db_messages, active_agents>>

\* lines 80-94: the commit of the response, then chat_endpoint returns
SaveAssistantMessage(r) ==
    /\ LoopFree
    /\ req[r].pc = "save_assistant"
    /\ db_messages' = Append(db_messages, MessageRow(r, "assistant"))
    /\ req' = [req EXCEPT ![r] = [pc |-> "done"] @@ NoLocals]
    /\ UNCHANGED <<settings, db_sessions, active_agents, agents, running>>

\* a client sends its next message when it has the response to the one before
ArriveInTurn(r) ==
    /\ \A q \in Requests : q < r => req[q].pc = "done"
    /\ Arrive(r)

\* the steps of process_message for request r
TurnStep(r) == Dispatch(r) \/ Finish(r)

\* clients that wait for each response, under any configuration
Next ==
    \E r \in Requests :
        \/ ArriveInTurn(r)
        \/ ResolveSession(r)
        \/ GetOrCreateAgent(r)
        \/ SaveUserMessage(r)
        \/ ProcessMessage(r)
        \/ Dispatch(r)
        \/ Finish(r)
        \/ SaveAssistantMessage(r)

Spec == Init /\ [][Next]_vars

\* the connections the server is reached over; each carries one request at a time
Connections == {"a", "b"}

\* a request arrives over a connection that carries none
ArriveOnConnection(r) ==
    /\ Cardinality({q \in Requests : req[q].pc \notin {"idle", "done"}})
           < Cardinality(Connections)
    /\ Arrive(r)

\* concurrent requests, under the configuration config.py gives when the
\* environment sets nothing (provider comet, no credential)
ServerInit == Init /\ settings = DefaultSettings

ServerNext ==
    \E r \in Requests :
        \/ ArriveOnConnection(r)
        \/ ResolveSession(r)
        \/ GetOrCreateAgent(r)
        \/ SaveUserMessage(r)
        \/ ProcessMessage(r)
        \/ Dispatch(r)
        \/ Finish(r)
        \/ SaveAssistantMessage(r)

ServerSpec == ServerInit /\ [][ServerNext]_vars

\* ------------------------------------------------------------------------
\* Direct calls of the methods of one agent (no endpoint, no database): the
\* r-th call is made when the one before has returned and its record is
\* dropped.  req[r] is the record of the call: the method, its arguments in
\* the locals of the same name and what it returned or raised in result.
\* ------------------------------------------------------------------------
\* the texts _generate_simple_ai_response is called with
PlannerInputs ==
    <<Chars(<<>>), Chars(<<"h","e","l","l","o">>), Chars(<<"o","p","e","n"," ","c","a","l","c","u","l","a","t","o","r">>), Chars(<<"O","p","e","n"," ","C","a","l","c","u","l","a","t","o","r"," ">>),
      Chars(<<"o","p","e","n"," ","b","r","o","w","s","e","r">>), Chars(<<"o","p","e","n"," ","f","o","o">>), Chars(<<"t","y","p","e"," ","h","e","l","l","o"," ","w","o","r","l","d">>), Chars(<<"t","y","p","e">>),
      Chars(<<"c","l","i","c","k"," ","3","0","0"," ","2","0","0">>), Chars(<<"k","l","i","k"," ","1","0",",","2","0"," ","3","0"," ","4","0">>), Chars(<<"c","l","i","c","k"," ","1","2">>),
      Chars(<<"c","l","i","c","k"," ","h","e","r","e">>), Chars(<<"p","r","e","s","s"," ","e","n","t","e","r">>),
      Chars(<<"p","r","e","s","s"," ","b","a","c","k","s","p","a","c","e">>), Chars(<<"c","l","o","s","e"," ","w","i","n","d","o","w">>), Chars(<<"m","a","x","i","m","i","z","e">>),
      Chars(<<"x","d","o","t","o","o","l"," ","k","e","y"," ","F","5">>),
      Chars(<<"e","n","t","e","r">>), Chars(<<"r","e","t","u","r","n">>), Chars(<<"e","s","c","a","p","e">>), Chars(<<"e","s","c">>), Chars(<<"t","a","b">>),
      Chars(<<"s","p","a","c","e">>), Chars(<<"s","p","a","s","i">>), Chars(<<"b","a","c","k","s","p","a","c","e">>), Chars(<<"d","e","l","e","t","e">>), Chars(<<"d","e","l">>),
      Chars(<<"u","p">>), Chars(<<"a","t","a","s">>), Chars(<<"d","o","w","n">>), Chars(<<"b","a","w","a","h">>), Chars(<<"l","e","f","t">>),
      Chars(<<"k","i","r","i">>), Chars(<<"r","i","g","h","t">>), Chars(<<"k","a","n","a","n">>),
      Chars(<<"s","c","r","o","l","l">>), Chars(<<"s","c","r","o","l","l"," ","d","o","w","n">>), Chars(<<"s","c","r","o","l","l"," ","u","p">>), Chars(<<"g","u","l","i","r"," ","b","a","w","a","h">>),
      Chars(<<"g","u","l","i","r"," ","a","t","a","s">>),
      Chars(<<"f","i","r","e","f","o","x">>), Chars(<<"o","p","e","n"," ","f","i","r","e","f","o","x">>), Chars(<<"b","u","k","a"," ","f","i","r","e","f","o","x">>),
      Chars(<<"s","e","a","r","c","h"," ","w","e","a","t","h","e","r"," ","j","a","k","a","r","t","a">>), Chars(<<"f","i","r","e","f","o","x"," ","s","e","a","r","c","h"," ","w","e","a","t","h","e","r"," ","j","a","k","a","r","t","a">>),
      Chars(<<"b","u","k","a"," ","f","i","r","e","f","o","x"," ","d","a","n"," ","c","a","r","i"," ","c","u","a","c","a"," ","j","a","k","a","r","t","a">>)>>

\* the plan {"action": "x", "commands": ["a", "b"]}
PlanAB == Dict([action |-> Chars(<<"x">>), commands |-> List(<<Chars(<<"a">>), Chars(<<"b">>)>>)])
\* a plan with a command that holds the fence marker
MarkedPlan ==
    Dict([action |-> Chars(<<"x">>),
          commands |-> List(<<Chars(<<"e","c","h","o"," ">> \o FenceMark \o <<"h","i">> \o FenceMark), Chars(<<"b">>)>>)])
\* documents whose "commands" is no list
TextCommands == Dict([action |-> Chars(<<"x">>), commands |-> Chars(<<"x","d","o","t","o","o","l"," ","k","e","y"," ","a">>)])
NullCommands == Dict([action |-> Chars(<<"x">>), commands |-> None])

\* how a document is wrapped: not at all, in a fence tagged json, in a fence
\* with no tag, in a fence with another language tag
Fences == {"none", "json", "bare", "tag"}

\* the texts _extract_xdotool_commands is called with
ExtractorInputs ==
    {JsonText(f, val) : f \in Fences, val \in {PlanAB, TwoCommands, MarkedPlan}}
    \cup {JsonDumps(TextCommands), JsonDumps(NullCommands), JsonDumps(NumberPlan),
          JsonDumps(List(<<Num(1), Num(2)>>)),
          Chars(<<"<","x","d","o","t","o","o","l",">","k","e","y"," ","R","e","t","u","r","n","<","/","x","d","o","t","o","o","l",">"," ","a","n","d"," ","<","x","d","o","t","o","o","l",">"," ","<","/","x","d","o","t","o","o","l",">","<","x","d","o","t","o","o","l",">","t","y","p","e"," ","\"","h","i","\"","<","/","x","d","o","t","o","o","l",">">>),
          Chars(<<"<","x","d","o","t","o","o","l",">","k","e","y"," ","R","e","t","u","r","n","<","/","x","d","o","t","o","o","l",">","<","x","d","o","t","o","o","l",">","t","y","p","e"," ","\"","h","i","\"","<","/","x","d","o","t","o","o","l",">">>),
          Chars(<<"<","x","d","o","t","o","o","l",">","\n"," ","k","e","y"," ","a"," ","\n","<","/","x","d","o","t","o","o","l",">">>),
          Chars(<<"<","x","d","o","t","o","o","l",">","a","<","x","d","o","t","o","o","l",">","b","<","/","x","d","o","t","o","o","l",">","c","<","/","x","d","o","t","o","o","l",">">>),
          Chars(<<"<","x","d","o","t","o","o","l",">","o","p","e","n">>),
          Chars(<<"n","o","t","h","i","n","g"," ","h","e","r","e">>), Chars(<<>>)}

\* a text of n times the character c, and a type command of 15 + n characters
Filled(c, n) == [i \in 1..n |-> c]
LongCommand(n) == Chars(<<"x","d","o","t","o","o","l"," ","t","y","p","e"," ","\"">> \o Filled("a", n) \o <<"\"">>)

\* the arguments _generate_execution_report is called with
ReportCommands == {List(<<>>), None, List(<<Chars(<<"a">>)>>), List(<<Chars(<<"a">>), Chars(<<"b">>)>>)}
ReportResults ==
    {<<>>,
     <<ExecuteXdotoolCommand(Chars(<<"a">>), BoundaryReplies[1])>>,
     <<ExecuteXdotoolCommand(Chars(<<"a">>), BoundaryReplies[2])>>,
     <<ExecuteXdotoolCommand(Chars(<<"a">>), BoundaryReplies[1]),
       ExecuteXdotoolCommand(Chars(<<"b">>), BoundaryReplies[3])>>,
     <<ExecuteXdotoolCommand(Chars(<<"a">>), BoundaryReplies[2]),
       ExecuteXdotoolCommand(Chars(<<"b">>), BoundaryReplies[3])>>,
     <<[command |-> LongCommand(45), success |-> TRUE, return_code |-> Num(0),
        output |-> Chars(<<" ">> \o Filled("o", 130) \o <<"\n">>), error |-> Chars(<<>>)],
       [command |-> LongCommand(35), success |-> FALSE,
        error |-> Chars(Filled("e", 130))],
       [command |-> LongCommand(36), success |-> TRUE, return_code |-> Num(1),
        output |-> Chars(Filled("o", 100)), error |-> Chars(<<"w","a","r","n","i","n","g">>)]>>}
ReportTexts == {JsonDumps(PlanAB), JsonText("json", TwoCommands), Chars(<<"n","o","t","h","i","n","g"," ","h","e","r","e">>)}

\* the shapes of a reply of the backend, each with a text of its own
Blocks(kind, text) == List(<<Dict([type |-> Chars(kind), text |-> Chars(text)])>>)
Messages(sender, text) ==
    List(<<Dict([role |-> Chars(<<"u","s","e","r">>), content |-> Chars(<<"q","u","e","s","t","i","o","n">>)]),
           Dict([role |-> Chars(sender), content |-> Chars(text)])>>)
Choices(key, text) == List(<<Dict(key :> Dict([content |-> Chars(text)]))>>)

\* the bodies of the replies _generate_ai_response reads: every shape alone,
\* shapes together, shapes without a text, no shape, no JSON, nothing
ProbeBodies ==
    {JsonDumps(Dict([content |-> Blocks(<<"t","e","x","t">>, <<"f","r","o","m"," ","b","l","o","c","k","s">>)])),
     JsonDumps(Dict([content |-> Chars(<<"f","r","o","m"," ","f","l","a","t"," ","c","o","n","t","e","n","t">>)])),
     JsonDumps(Dict([messages |-> Messages(<<"a","s","s","i","s","t","a","n","t">>, <<"f","r","o","m"," ","m","e","s","s","a","g","e","s">>)])),
     JsonDumps(Dict([choices |-> Choices("message", <<"f","r","o","m"," ","c","h","o","i","c","e","s">>)])),
     JsonDumps(Dict([choices |-> Choices("delta", <<"f","r","o","m"," ","d","e","l","t","a">>)])),
     JsonDumps(Dict([content |-> Blocks(<<"t","e","x","t">>, <<"f","r","o","m"," ","b","l","o","c","k","s">>),
                     choices |-> Choices("message", <<"f","r","o","m"," ","c","h","o","i","c","e","s">>)])),
     JsonDumps(Dict([messages |-> Messages(<<"a","s","s","i","s","t","a","n","t">>, <<"f","r","o","m"," ","m","e","s","s","a","g","e","s">>),
                     choices |-> Choices("message", <<"f","r","o","m"," ","c","h","o","i","c","e","s">>)])),
     JsonDumps(Dict([content |-> Blocks(<<"t","o","o","l","_","u","s","e">>, <<"f","r","o","m"," ","b","l","o","c","k","s">>),
                     choices |-> Choices("message", <<"f","r","o","m"," ","c","h","o","i","c","e","s">>)])),
     JsonDumps(Dict([content |-> Chars(<<>>),
                     messages |-> Messages(<<"a","s","s","i","s","t","a","n","t">>, <<"f","r","o","m"," ","m","e","s","s","a","g","e","s">>)])),
     JsonDumps(Dict([messages |-> Messages(<<"u","s","e","r">>, <<"f","r","o","m"," ","m","e","s","s","a","g","e","s">>),
                     choices |-> Choices("message", <<"f","r","o","m"," ","c","h","o","i","c","e","s">>)])),
     JsonDumps(Dict([content |-> Chars(<<" "," "," ">>)])),
     JsonDumps(Dict([id |-> Chars(<<"m","s","g","_","1">>)])),
     JsonDumps(List(<<Chars(<<"f","r","o","m"," ","a"," ","l","i","s","t">>)>>)),
     Chars(<<"<","h","t","m","l",">","5","0","2"," ","B","a","d"," ","G","a","t","e","w","a","y","<","/","h","t","m","l",">">>),
     Chars(<<" ">>),
     Chars(<<>>)}

\* the commands _execute_xdotool_command is called with
DispatchCommands == {Chars(<<"x","d","o","t","o","o","l"," ","k","e","y"," ","R","e","t","u","r","n">>), Chars(<<"e","c","h","o"," ","h","i">>), Chars(<<>>)}

\* how the run of a command on the desktop can end
CommandRuns ==
    {[kind |-> "exit", returncode |-> 0, stdout |-> <<>>, stderr |-> <<>>],
     [kind |-> "exit", returncode |-> 0, stdout |-> <<"h","i","\n">>, stderr |-> <<>>],
     [kind |-> "exit", returncode |-> 1, stdout |-> <<>>,
      stderr |-> <<"E","r","r","o","r",":"," ","C","a","n","'","t"," ","o","p","e","n"," ","d","i","s","p","l","a","y",":"," ","(","n","u","l","l",")","\n">>],
     [kind |-> "timeout", text |-> <<"C","o","m","m","a","n","d"," ","t","i","m","e","d"," ","o","u","t"," ","a","f","t","e","r"," ","3","0"," ","s","e","c","o","n","d","s">>]}

\* how requests.post of the command can end: the reply of the service of
\* vnc_api.py or of the route of executor.py for a run of the command, a reply
\* of another status or without a JSON object, or an exception
DispatchReplies(command) ==
    {[service |-> "vnc_api", run |-> run, reply |-> HandleExecute(PostBody(command), run)] :
        run \in CommandRuns}
    \cup {[service |-> "executor", run |-> run, reply |-> ProxyExecute(command, run)] :
             run \in CommandRuns}
    \cup {[service |-> "other", run |-> None, reply |-> reply] :
             reply \in {BoundaryReplies[k] : k \in 1..Len(BoundaryReplies)}
                       \cup {[kind |-> "response", status |-> 201,
                              body |-> Chars(<<"{","\"","r","e","t","u","r","n","_","c","o","d","e","\"",":"," ","0",","," ","\"","o","u","t","p","u","t","\"",":"," ","\"","\"",","," ","\"","e","r","r","o","r","\"",":"," ","\"","\"","}">>)],
                             [kind |-> "response", status |-> 204, body |-> Chars(<<>>)],
                             [kind |-> "response", status |-> 200, body |-> Chars(<<"O","K">>)],
                             [kind |-> "response", status |-> 200,
                              body |-> JsonDumps(List(<<Chars(<<"h","i">>)>>))],
                             [kind |-> "response", status |-> 200, body |-> JsonDumps(Dict(<<>>))]}}

\* the agents the calls are made on: either session, with and without a turn
\* in the history
UnitAgents ==
    {[session_id |-> s, conversation_history |-> h] :
        s \in {"session-1", "session-2"},
        h \in {<<>>, <<UserEntry(Chars(<<"p","r","e","s","s"," ","e","n","t","e","r">>))>>}}

UnitInit ==
    /\ settings \in {Configurations[1], DefaultSettings}
    /\ db_sessions = {}
    /\ db_messages = <<>>
    /\ active_agents = <<>>
    /\ agents \in {<<agent>> : agent \in UnitAgents}
    /\ req = [r \in Requests |-> [pc |-> "idle"] @@ NoLocals]
    /\ running = 0

\* the record of a call that has returned
Called(method, locals) == [pc |-> "returned", method |-> method] @@ locals

\* the r-th call can be made
CanCall(r) ==
    /\ req[r].pc = "idle"
    /\ \A q \in Requests : q < r => req[q].pc = "done"

\* agent._generate_simple_ai_response(user_message)
SimpleCall(r) ==
    /\ CanCall(r)
    /\ \E k \in 1..Len(PlannerInputs) :
           req' = [req EXCEPT ![r] =
                      Called("_generate_simple_ai_response",
                             [NoLocals EXCEPT
                                 !.message = PlannerInputs[k],
                                 !.result = Return(SimplePlanOf(agents[1], PlannerInputs[k]))])]
    /\ UNCHANGED <<settings, db_sessions, db_messages, active_agents, agents, running>>

\* agent._extract_xdotool_commands(ai_response)
ExtractCall(r) ==
    /\ CanCall(r)
    /\ \E text \in ExtractorInputs :
           req' = [req EXCEPT ![r] =
                      Called("_extract_xdotool_commands",
                             [NoLocals EXCEPT !.ai_response = text,
                                              !.result = ExtractXdotoolCommands(text)])]
    /\ UNCHANGED <<settings, db_sessions, db_messages, active_agents, agents, running>>

\* agent._generate_execution_report(commands, results, ai_response)
ReportCall(r) ==
    /\ CanCall(r)
    /\ \E commands \in ReportCommands, results \in ReportResults, text \in ReportTexts :
           req' = [req EXCEPT ![r] =
                      Called("_generate_execution_report",
                             [NoLocals EXCEPT
                                 !.xdotool_commands = commands,
                                 !.execution_results = results,
                                 !.ai_response = text,
                                 !.result = GenerateExecutionReport(commands, results, text)])]
    /\ UNCHANGED <<settings, db_sessions, db_messages, active_agents, agents, running>>

\* agent._generate_ai_response(user_message) when the backend replies with body
GenerateCall(r) ==
    /\ CanCall(r)
    /\ BackendEnabled(settings)
    /\ \E body \in ProbeBodies :
           LET outcome == [kind |-> "response", status |-> 200, raw |-> body]
           IN  req' = [req EXCEPT ![r] =
                          Called("_generate_ai_response",
                                 [NoLocals EXCEPT
                                     !.message = Chars(<<"p","r","e","s","s"," ","e","n","t","e","r">>),
                                     !.outcome = outcome,
                                     !.payload =
                                         [messages |->
                                             BackendMessages(agents[1].conversation_history,
                                                             Chars(<<"p","r","e","s","s"," ","e","n","t","e","r">>))],
                                     !.result =
                                         Return(GenerateAIResponse(settings, Chars(<<"p","r","e","s","s"," ","e","n","t","e","r">>),
                                                                   outcome))])]
    /\ UNCHANGED <<settings, db_sessions, db_messages, active_agents, agents, running>>

\* agent._execute_xdotool_command(command)
DispatchCall(r) ==
    /\ CanCall(r)
    /\ \E command \in DispatchCommands :
           \E sent \in DispatchReplies(command) :
               req' = [req EXCEPT ![r] =
                          Called("_execute_xdotool_command",
                                 [NoLocals EXCEPT
                                     !.boundary_calls =
                                         <<[command |-> command, reply |-> sent.reply,
                                            service |-> sent.service, run |-> sent.run]>>,
                                     !.result =
                                         Return(ExecuteXdotoolCommand(command, sent.reply))])]
    /\ UNCHANGED <<settings, db_sessions, db_messages, active_agents, agents, running>>

\* the caller drops the record of the call
Forget(r) ==
    /\ req[r].pc = "returned"
    /\ req' = [req EXCEPT ![r] = [pc |-> "done"] @@ NoLocals]
    /\ UNCHANGED <<settings, db_sessions, db_messages, active_agents, agents, running>>

UnitNext ==
    \E r \in Requests :
        \/ SimpleCall(r)
        \/ ExtractCall(r)
        \/ ReportCall(r)
        \/ GenerateCall(r)
        \/ DispatchCall(r)
        \/ Forget(r)

UnitSpec == UnitInit /\ [][UnitNext]_vars

\* ------------------------------------------------------------------------
\* ComputerUseAgent (computer_use_loop.py): calls of process_message and
\* cleanup on one agent, interleaved at their awaits.  agents holds the agent
\* (with `status`, the last status handed to on_status_update) and req the
\* process_message coroutines with the await they are suspended at.
\* ------------------------------------------------------------------------
\* the parameters of loop.sampling_loop (all keyword-only, loop.py lines 20-35)
SamplingParameters ==
    {"model", "provider", "system_prompt_suffix", "messages", "output_callback",
     "tool_output_callback", "api_response_callback", "api_key",
     "only_n_most_recent_images", "max_tokens", "tool_version", "thinking_budget",
     "token_efficient_tools_beta"}

\* the keywords process_message calls sampling_loop with (lines 117-130)
SamplingKeywords ==
    {"model", "provider", "system_prompt_suffix", "messages", "output_callback",
     "tool_output_callback", "api_response_callback", "api_key", "api_base_url",
     "only_n_most_recent_images", "max_tokens", "tool_version"}

\* sampling_loop(messages=messages, ...): a keyword that is no parameter makes
\* the call raise TypeError before the coroutine starts; otherwise the loop
\* returns the messages with the reply of the assistant after them
SamplingLoop(messages) ==
    IF SamplingKeywords \subseteq SamplingParameters
    THEN Return(messages \o <<[role |-> "assistant", content |-> <<[type |-> "text", text |-> Chars(<<"P","l","a","c","e","h","o","l","d","e","r"," ","r","e","s","p","o","n","s","e">>)]>>]>>)
    ELSE Raise(<<"s","a","m","p","l","i","n","g","_","l","o","o","p","(",")"," ","g","o","t"," ","a","n"," ","u","n","e","x","p","e","c","t","e","d"," ","k","e","y","w","o","r","d"," ","a","r","g","u","m","e","n","t"," ","'","a","p","i","_","b","a","s","e","_","u","r","l","'">>)

\* lines 31-58 and 82-93: the agent after __init__ and initialize()
NewComputerUseAgent(session_id) ==
    [session_id |-> session_id, messages |-> <<>>, is_running |-> FALSE,
     current_task |-> None, status |-> "ready"]

AgentInit ==
    /\ settings = DefaultSettings
    /\ db_sessions = {}
    /\ db_messages = <<>>
    /\ active_agents = <<>>
    /\ agents = <<NewComputerUseAgent("session-1")>>
    /\ req = [r \in Requests |-> [pc |-> "idle"] @@ NoLocals]
    /\ running = 0

\* on_status_update(self.session_id, status, ...) is awaited
StatusUpdate(agent, status) == [agent EXCEPT !.status = status]

\* lines 95-108: process_message(user_message) is called and runs to its
\* first await: the status busy when the agent is running, else is_running
\* is set and the status processing is reported
EnterProcessMessage(r) ==
    /\ req[r].pc = "idle"
    /\ \A q \in Requests : q < r => req[q].pc # "idle"
    /\ \E i \in 1..Len(UserMessages) :
           IF agents[1].is_running
           THEN /\ agents' = [agents EXCEPT ![1] = StatusUpdate(@, "busy")]
                /\ req' = [req EXCEPT ![r] = [@ EXCEPT !.pc = "busy",
                                                       !.message = UserMessages[i]]]
           ELSE /\ agents' = [agents EXCEPT ![1] =
                                 StatusUpdate([@ EXCEPT !.is_running = TRUE], "processing")]
                /\ req' = [req EXCEPT ![r] = [@ EXCEPT !.pc = "processing",
                                                       !.message = UserMessages[i]]]
    /\ UNCHANGED <<settings, db_sessions, db_messages, active_agents, running>>

\* lines 97-101: the status busy was delivered and the call returns
ReturnBusy(r) ==
    /\ req[r].pc = "busy"
    /\ req' = [req EXCEPT ![r] = [pc |-> "done"] @@ NoLocals]
    /\ UNCHANGED <<settings, db_sessions, db_messages, active_agents, agents, running>>

\* lines 106-138: the status processing was delivered: the user message is
\* appended and sampling_loop is called.  When the call raises, the status
\* error is reported (lines 134-138); else the coroutine waits for the loop.
RunSamplingLoop(r) ==
    /\ req[r].pc = "processing"
    /\ LET appended == Append(agents[1].messages,
                              [role |-> "user",
                               content |-> <<[type |-> "text", text |-> req[r].message]>>])
           loop == SamplingLoop(appended)
       IN  IF loop.raised
           THEN /\ agents' = [agents EXCEPT ![1] =
                                 StatusUpdate([@ EXCEPT !.messages = appended], "error")]
                /\ req' = [req EXCEPT ![r] = [@ EXCEPT !.pc = "finally"]]
           ELSE /\ agents' = [agents EXCEPT ![1].messages = appended]
                /\ req' = [req EXCEPT ![r] = [@ EXCEPT !.pc = "sampling",
                                                       !.result = loop.value]]
    /\ UNCHANGED <<settings, db_sessions, db_messages, active_agents, running>>

\* the coroutine resumes: after the loop, self.messages is what the loop
\* returned and the status completed is reported (lines 117-132); after the
\* last status, the finally clause resets is_running and the call returns
\* (lines 139-140)
ResumeProcessMessage(r) ==
    /\ req[r].pc \in {"sampling", "finally"}
    /\ IF req[r].pc = "sampling"
       THEN /\ agents' = [agents EXCEPT ![1] =
                             StatusUpdate([@ EXCEPT !.messages = req[r].result], "completed")]
            /\ req' = [req EXCEPT ![r] = [@ EXCEPT !.pc = "finally"]]
       ELSE /\ agents' = [agents EXCEPT ![1].is_running = FALSE]
            /\ req' = [req EXCEPT ![r] = [pc |-> "done"] @@ NoLocals]
    /\ UNCHANGED <<settings, db_sessions, db_messages, active_agents, running>>

\* lines 161-167: cleanup() resets is_running, cancels current_task when there
\* is one (nothing ever assigns it) and reports the status terminated
Cleanup ==
    /\ agents' = [agents EXCEPT ![1] = StatusUpdate([@ EXCEPT !.is_running = FALSE],
                                                    "terminated")]
    /\ UNCHANGED <<settings, db_sessions, db_messages, active_agents, req, running>>

AgentNext ==
    \/ \E r \in Requests :
           \/ EnterProcessMessage(r)
           \/ ReturnBusy(r)
           \/ RunSamplingLoop(r)
           \/ ResumeProcessMessage(r)
    \/ Cleanup

AgentSpec == AgentInit /\ [][AgentNext]_vars

\* ------------------------------------------------------------------------
\* Properties
\* ------------------------------------------------------------------------
\* s is a prefix of t
IsPrefix(s, t) == Len(s) <= Len(t) /\ SubSeq(t, 1, Len(s)) = s

\* process_message of request r has returned and its response is not yet committed
Returned(r) == req[r].pc = "save_assistant"

\* the call of the backend made for request r has ended
Generated(r) == req[r].pc \in {"dispatch", "save_assistant"}

\* request r is between the resolution of its session and its return
InFlight(r) == req[r].pc \notin {"idle", "get_session", "done"}

\* C1: partial-failure tolerance of the dispatcher.  When process_message has
\* returned, one outcome is recorded for every command of the plan, whichever
\* of the earlier commands failed (non-200 reply, transport error, timeout):
\* a failure does not end the batch.
C1_FailureDoesNotAbortBatch ==
    \A r \in Requests :
        Returned(r) =>
            /\ Len(req[r].execution_results) = Len(Elements(req[r].xdotool_commands))
            /\ Len(req[r].boundary_calls) = Len(Elements(req[r].xdotool_commands))

\* a turn of two commands has returned, the first command failed and the
\* second was dispatched and has its outcome
C1_Witness ==
    \E r \in Requests :
        /\ Returned(r)
        /\ Len(req[r].execution_results) = 2
        /\ ~req[r].execution_results[1].success
        /\ req[r].boundary_calls[2].command = Elements(req[r].xdotool_commands)[2]

\* C2: order preservation of the dispatcher.  At every point of a turn the
\* i-th outcome recorded carries the i-th command of the extracted list, for
\* every mix of successes and failures, and when the turn has returned there
\* are as many outcomes as commands.
C2_OutcomesAlignedWithCommands ==
    \A r \in Requests :
        /\ Len(req[r].execution_results) <= Len(Elements(req[r].xdotool_commands))
        /\ \A i \in 1..Len(req[r].execution_results) :
               req[r].execution_results[i].command = Elements(req[r].xdotool_commands)[i]
        /\ Returned(r) /\ req[r].result.success =>
               Len(req[r].result.execution_results) = Len(Elements(req[r].result.actions_taken))

\* a turn of two different commands has returned with one success and one failure
C2_Witness ==
    \E r \in Requests :
        /\ Returned(r)
        /\ Len(req[r].execution_results) = 2
        /\ req[r].execution_results[1].command # req[r].execution_results[2].command
        /\ req[r].execution_results[1].success
        /\ ~req[r].execution_results[2].success

\* C3: failure policy of the generative planner.  When the backend is disabled
\* (another provider is configured), the credential is missing, or the call of
\* the backend raises, _generate_ai_response returns the text the deterministic
\* planner gives for the same user text.
C3_FallbackOnDisabledOrError ==
    \A r \in Requests :
        Generated(r) /\ (~BackendEnabled(settings) \/ req[r].outcome.kind = "error") =>
            req[r].ai_response = GenerateSimpleAIResponse(req[r].message)

\* the backend is enabled, the call raised, and the turn goes on with the
\* deterministic plan
C3_Witness ==
    \E r \in Requests :
        /\ Generated(r)
        /\ BackendEnabled(settings)
        /\ req[r].outcome.kind = "error"
        /\ req[r].ai_response = GenerateSimpleAIResponse(req[r].message)
        /\ req[r].execution_results # <<>>

\* C4, as the specification states it: when the backend answers with a body
\* that is not JSON, or with an error reply (a status other than 200), the text
\* of the turn is the plan of the deterministic planner, and the reply of the
\* backend is not in the response the user gets.
C4_BackendFailureFallsThrough ==
    \A r \in Requests :
        Generated(r) /\ req[r].outcome.kind = "response"
                     /\ (req[r].outcome.status # 200 \/ JsonLoads(req[r].outcome.raw).raised) =>
            req[r].ai_response = GenerateSimpleAIResponse(req[r].message)

\* the backend answered 401 with a JSON error body, and the response of the
\* turn starts with that body
C4_ErrorBodySurfaced ==
    \E r \in Requests :
        /\ Returned(r)
        /\ req[r].outcome.kind = "response"
        /\ req[r].outcome.status = 401
        /\ req[r].result.success
        /\ req[r].result.response.parts[1] = req[r].outcome.raw

\* the rows of db_messages of session s, in commit order
SessionRows(s) == SelectSeq(db_messages, LAMBDA row : row.session_id = s)

\* C5, as the specification states it: at most one turn of a session is in
\* flight at any time, and the persisted messages of two turns of one session
\* do not interleave (each user row is followed by the assistant row of its
\* turn before the next user row of the session).
C5_PerSessionSerialization ==
    /\ \A r1, r2 \in Requests :
           r1 # r2 /\ InFlight(r1) /\ InFlight(r2) =>
               req[r1].session_id # req[r2].session_id
    /\ \A s \in db_sessions :
           \A i \in 1..(Len(SessionRows(s)) - 1) :
               SessionRows(s)[i].role = "user" =>
                   /\ SessionRows(s)[i + 1].role = "assistant"
                   /\ SessionRows(s)[i + 1].turn = SessionRows(s)[i].turn

\* two turns of one session have both returned: their user rows were committed
\* one after the other, before either response
C5_Interleaved ==
    \E s \in db_sessions :
        /\ Len(SessionRows(s)) >= 2
        /\ SessionRows(s)[1].role = "user"
        /\ SessionRows(s)[2].role = "user"
        /\ \A r \in Requests : req[r].pc = "done"

\* the last entry of a non-empty sequence
Last(seq) == seq[Len(seq)]

\* C6: pipeline failure handling.  process_message returns a result whatever
\* is raised inside it: when the extraction or the composition of the report
\* raises, the result has success false, the text of the exception as error and
\* inside response, and the user turn is the last entry of the history of the
\* agent; a turn in which nothing raises has success true.
C6_FailureResult ==
    \A r \in Requests :
        Returned(r) =>
            /\ req[r].result.success =
                   ~(\/ ExtractXdotoolCommands(req[r].ai_response).raised
                     \/ GenerateExecutionReport(req[r].xdotool_commands,
                                                req[r].execution_results,
                                                req[r].ai_response).raised)
            /\ ~req[r].result.success =>
                   /\ IsStr(req[r].result.error)
                   /\ req[r].result.error.s # <<>>
                   /\ req[r].result.response.s = <<"A","I"," ","A","g","e","n","t"," ","e","r","r","o","r",":"," ">> \o req[r].result.error.s
                   /\ Last(History(r)) = UserEntry(req[r].message)

\* the report of a turn raised after its commands were dispatched, in a
\* session that has an earlier turn
C6_Witness ==
    \E r \in Requests :
        /\ Returned(r)
        /\ ~req[r].result.success
        /\ req[r].execution_results # <<>>
        /\ Len(History(r)) > 1

\* C7, as the specification states it: every turn ends.  While process_message
\* of a request holds the event loop it has a next step: a remote call that
\* gets no answer ends by its timeout.
C7_EveryTurnHasNextStep ==
    \A r \in Requests : running = r => ENABLED TurnStep(r)

\* the backend accepted the request and sends nothing: getresponse() blocks
C7_Blocked ==
    \E r \in Requests : running = r /\ req[r].pc = "await_backend"

\* C8: the history of a session is append-only.  Every step leaves the history
\* of every agent a prefix of what it is after the step, adds at most one
\* entry, removes no agent, and a history changes only in a step of
\* process_message of a request served by that agent.
C8_HistoryAppendOnly ==
    [][/\ Len(agents') >= Len(agents)
       /\ \A a \in 1..Len(agents) :
              /\ IsPrefix(agents[a].conversation_history, agents'[a].conversation_history)
              /\ Len(agents'[a].conversation_history)
                     <= Len(agents[a].conversation_history) + 1
              /\ agents'[a].conversation_history # agents[a].conversation_history =>
                     \E r \in Requests :
                         /\ req[r].agent = a
                         /\ req[r].pc \in {"process", "dispatch"}
                         /\ req'[r].pc # req[r].pc]_vars

\* the second turn of a session has started: the history holds the two entries
\* of the first turn and the user entry of the second
C8_Witness ==
    \E a \in 1..Len(agents) :
        /\ Len(agents[a].conversation_history) = 3
        /\ agents[a].conversation_history[2].role = "assistant"
        /\ agents[a].conversation_history[3].role = "user"

\* C9: one planner instance per session.  No two agents constructed have the
\* same session id, active_agents maps every session that has an agent to it,
\* and every request that has its agent has the agent of its session.
C9_OneAgentPerSession ==
    /\ \A a, b \in 1..Len(agents) :
           agents[a].session_id = agents[b].session_id => a = b
    /\ \A s \in DOMAIN active_agents : agents[active_agents[s]].session_id = s
    /\ \A r \in Requests :
           req[r].agent # 0 =>
               /\ req[r].session_id \in DOMAIN active_agents
               /\ req[r].agent = active_agents[req[r].session_id]

\* two requests of one session are in flight together and have the same agent,
\* whose history holds the user turn of the first
C9_Witness ==
    \E r1, r2 \in Requests :
        /\ r1 # r2
        /\ req[r1].agent # 0
        /\ req[r1].agent = req[r2].agent
        /\ req[r1].session_id = req[r2].session_id
        /\ agents[req[r1].agent].conversation_history # <<>>

\* C10: each dispatch yields an outcome.  For a reply with a status other than
\* 200 the outcome has success false and an error text that contains the status
\* and the body of the reply; for a transport error or a timeout it has success
\* false and the text of the exception as error; both carry the command.
C10_FailedDispatchOutcome ==
    \A r \in Requests :
        /\ Len(req[r].execution_results) = Len(req[r].boundary_calls)
        /\ \A i \in 1..Len(req[r].boundary_calls) :
               LET call == req[r].boundary_calls[i]
                   result == req[r].execution_results[i]
               IN  /\ call.reply.kind = "response" /\ call.reply.status # 200 =>
                          /\ ~result.success
                          /\ result.command = call.command
                          /\ Contains(result.error.s, IntToStr(call.reply.status))
                          /\ Contains(result.error.s, call.reply.body.s)
                   /\ call.reply.kind = "exception" =>
                          /\ ~result.success
                          /\ result.command = call.command
                          /\ result.error = call.reply.text

\* one command got the reply 500 and another the timeout of requests.post
C10_Witness ==
    \E r \in Requests :
        /\ Len(req[r].boundary_calls) = 2
        /\ req[r].boundary_calls[1].reply.kind = "response"
        /\ req[r].boundary_calls[1].reply.status = 500
        /\ req[r].boundary_calls[2].reply.kind = "exception"
        /\ ~req[r].execution_results[1].success
        /\ ~req[r].execution_results[2].success

\* the r-th call was of the deterministic planner and has returned
Planned(r) ==
    req[r].pc = "returned" /\ req[r].method = "_generate_simple_ai_response"

\* the r-th call was of the plan extractor and has returned or raised
Extracted(r) ==
    req[r].pc = "returned" /\ req[r].method = "_extract_xdotool_commands"

\* the r-th call was of the report composer and has returned or raised
Reported(r) ==
    req[r].pc = "returned" /\ req[r].method = "_generate_execution_report"

\* the texts of the commands of the plan the planner returned to call r
PlannedCommands(r) ==
    [i \in 1..Len(req[r].result.value.v.d["commands"].l) |->
        req[r].result.value.v.d["commands"].l[i].s]

\* the input of call r as the planner matches it
PlannedInput(r) == Strip(Lower(req[r].message.s))

\* C11: the deterministic planner always succeeds with a non-empty plan.  For
\* every input it returns a text from which the plan extractor, without
\* raising, gets a list of at least one command, each a non-empty text.
C11_PlannerGivesNonEmptyPlan ==
    \A r \in Requests :
        Planned(r) =>
            /\ ~req[r].result.raised
            /\ LET extracted == ExtractXdotoolCommands(req[r].result.value)
               IN  /\ ~extracted.raised
                   /\ IsList(extracted.value)
                   /\ Len(extracted.value.l) >= 1
                   /\ \A i \in 1..Len(extracted.value.l) :
                          /\ IsStr(extracted.value.l[i])
                          /\ extracted.value.l[i].s # <<>>

\* an input no rule matches got the plan of the default rule: one echo command
C11_Witness ==
    \E r \in Requests :
        /\ Planned(r)
        /\ req[r].message = Chars(<<"h","e","l","l","o">>)
        /\ Len(PlannedCommands(r)) = 1
        /\ StartsWith(PlannedCommands(r)[1], <<"e","c","h","o"," ">>)

C13_FenceTolerance ==
    \A r \in Requests :
        Extracted(r) /\ req[r].ai_response.t = "json"
                     /\ IsDict(req[r].ai_response.v)
                     /\ IsList(Get(req[r].ai_response.v, "commands")) =>
            req[r].result = Return(req[r].ai_response.v.d["commands"])

\* the plan with the commands a, b in a fence with a tag other than json: the
\* extractor returned no command
C13_TagFenceLosesPlan ==
    \E r \in Requests :
        /\ Extracted(r)
        /\ req[r].ai_response = JsonText("tag", PlanAB)
        /\ req[r].result = Return(List(<<>>))

\* C14, as the specification states it: the plan extractor never fails.  For
\* every text it returns, without raising, a list; the value of "commands" is
\* returned only when it is a list.
C14_ExtractorNeverFails ==
    \A r \in Requests :
        Extracted(r) =>
            /\ ~req[r].result.raised
            /\ IsList(req[r].result.value)

\* the extractor raised for a document whose "commands" is a number
C14_ExtractorRaises ==
    \E r \in Requests :
        /\ Extracted(r)
        /\ req[r].ai_response = JsonDumps(NumberPlan)
        /\ req[r].result.raised

\* C15: empty-plan short circuit.  For an empty command list the report
\* composer returns exactly the line that says there is nothing to execute,
\* whatever outcomes and plan text it is called with.
C15_EmptyPlanShortCircuit ==
    \A r \in Requests :
        Reported(r) /\ req[r].xdotool_commands = List(<<>>) =>
            req[r].result = Return(Chars(<<"[","R","E","P","O","R","T","]",":"," ","N","o"," ","c","o","m","m","a","n","d","s"," ","t","o"," ","e","x","e","c","u","t","e",".">>))

\* the composer was called with no command, two outcomes and the text of a plan
C15_Witness ==
    \E r \in Requests :
        /\ Reported(r)
        /\ req[r].xdotool_commands = List(<<>>)
        /\ Len(req[r].execution_results) = 2
        /\ req[r].ai_response = JsonDumps(PlanAB)
        /\ ~req[r].result.raised

\* C16: report counts.  In a turn with commands whose report is composed, the
\* report starts with the header that carries the description of the plan, the
\* number of outcomes that succeeded and the number that failed; the two add
\* up to the number of outcomes, which is the number of commands.
C16_ReportCounts ==
    \A r \in Requests :
        Returned(r) /\ req[r].result.success /\ Elements(req[r].xdotool_commands) # <<>> =>
            LET results == req[r].execution_results
                successful == Cardinality({i \in 1..Len(results) : results[i].success})
                failed == Cardinality({i \in 1..Len(results) : ~results[i].success})
            IN  /\ StartsWith(req[r].result.response.parts[3].s,
                              <<"[","R","E","P","O","R","T","]",":"," ">> \o req[r].ai_response.v.d["action"].s
                              \o <<" ","-"," ">> \o IntToStr(successful) \o <<" ","s","u","c","c","e","s","s","f","u","l",","," ">>
                              \o IntToStr(failed) \o <<" ","f","a","i","l","e","d","\n">>)
                /\ successful + failed = Len(results)
                /\ Len(results) = Len(Elements(req[r].xdotool_commands))

\* the report of a turn of two commands, one that succeeded and one that failed
C16_Witness ==
    \E r \in Requests :
        /\ Returned(r)
        /\ req[r].result.success
        /\ Len(req[r].execution_results) = 2
        /\ ~req[r].execution_results[1].success
        /\ req[r].execution_results[2].success

\* C17, as the specification states it: an input with a scroll keyword and a
\* direction sub-keyword, and no keyword of the browser, open, type or click
\* rules, gives exactly three scroll commands in that direction.
C17_ScrollRule ==
    \A r \in Requests :
        Planned(r) /\ ContainsAny(PlannedInput(r), scroll_keywords)
                   /\ ContainsAny(PlannedInput(r), scroll_down_keywords \o scroll_up_keywords)
                   /\ ~Contains(PlannedInput(r), <<"f","i","r","e","f","o","x">>)
                   /\ ~ContainsAny(PlannedInput(r), open_keywords)
                   /\ ~ContainsAny(PlannedInput(r), type_keywords)
                   /\ ~ContainsAny(PlannedInput(r), click_keywords) =>
            PlannedCommands(r) =
                IF ContainsAny(PlannedInput(r), scroll_down_keywords)
                THEN <<<<"x","d","o","t","o","o","l"," ","c","l","i","c","k"," ","5">>, <<"x","d","o","t","o","o","l"," ","c","l","i","c","k"," ","5">>, <<"x","d","o","t","o","o","l"," ","c","l","i","c","k"," ","5">>>>
                ELSE <<<<"x","d","o","t","o","o","l"," ","c","l","i","c","k"," ","4">>, <<"x","d","o","t","o","o","l"," ","c","l","i","c","k"," ","4">>, <<"x","d","o","t","o","o","l"," ","c","l","i","c","k"," ","4">>>>

\* the plan for "scroll down" is one press of the Down key
C17_ScrollGivesKeyPress ==
    \E r \in Requests :
        /\ Planned(r)
        /\ req[r].message = Chars(<<"s","c","r","o","l","l"," ","d","o","w","n">>)
        /\ PlannedCommands(r) = <<<<"x","d","o","t","o","o","l"," ","k","e","y"," ","D","o","w","n">>>>

\* the entry k of the key table has a word that is a word of the input
Named(user_input, k) ==
    \E i \in 1..Len(Split(user_input)), j \in 1..Len(key_patterns[k][1]) :
        Split(user_input)[i] = key_patterns[k][1][j]

\* C18, as the specification states it: when no earlier rule matches and the
\* input names a key of the table, the plan is one key-press command for the
\* key that was named, for every entry of the table.
C18_KeyTable ==
    \A r \in Requests :
        Planned(r) /\ ~Contains(PlannedInput(r), <<"f","i","r","e","f","o","x">>)
                   /\ ~OpenMatches(PlannedInput(r))
                   /\ ~TypeMatches(PlannedInput(r))
                   /\ ~ClickMatches(PlannedInput(r)) =>
            \A k \in 1..Len(key_patterns) :
                Named(PlannedInput(r), k)
                    /\ (\A other \in 1..Len(key_patterns) :
                            Named(PlannedInput(r), other) => other = k) =>
                    PlannedCommands(r) = <<<<"x","d","o","t","o","o","l"," ","k","e","y"," ">> \o key_patterns[k][2]>>

\* the plan for "backspace" is one press of the space key
C18_BackspaceGivesSpace ==
    \E r \in Requests :
        /\ Planned(r)
        /\ req[r].message = Chars(<<"b","a","c","k","s","p","a","c","e">>)
        /\ PlannedCommands(r) = <<<<"x","d","o","t","o","o","l"," ","k","e","y"," ","s","p","a","c","e">>>>

\* C19, as the specification states it: for "search weather jakarta" the
\* commands begin with the launch of the browser, have a wait, the key
\* combination that focuses the address bar and a type command with the text
\* that is left when the stop words are removed, and end with the Return key.
C19_SearchScenario ==
    \A r \in Requests :
        Planned(r) /\ req[r].message = Chars(<<"s","e","a","r","c","h"," ","w","e","a","t","h","e","r"," ","j","a","k","a","r","t","a">>) =>
            /\ Head(PlannedCommands(r)) = <<"D","I","S","P","L","A","Y","=",":","1"," ","f","i","r","e","f","o","x","-","e","s","r"," ","&">>
            /\ \E i \in 1..Len(PlannedCommands(r)) :
                   StartsWith(PlannedCommands(r)[i], <<"s","l","e","e","p"," ">>)
            /\ \E i \in 1..Len(PlannedCommands(r)) :
                   PlannedCommands(r)[i] = <<"x","d","o","t","o","o","l"," ","k","e","y"," ","c","t","r","l","+","l">>
            /\ \E i \in 1..Len(PlannedCommands(r)) :
                   PlannedCommands(r)[i] = <<"x","d","o","t","o","o","l"," ","t","y","p","e"," ","\"","w","e","a","t","h","e","r"," ","j","a","k","a","r","t","a","\"">>
            /\ PlannedCommands(r)[Len(PlannedCommands(r))] = <<"x","d","o","t","o","o","l"," ","k","e","y"," ","R","e","t","u","r","n">>

\* the plan for "search weather jakarta" is the echo of the default rule
C19_SearchGivesDefault ==
    \E r \in Requests :
        /\ Planned(r)
        /\ req[r].message = Chars(<<"s","e","a","r","c","h"," ","w","e","a","t","h","e","r"," ","j","a","k","a","r","t","a">>)
        /\ Len(PlannedCommands(r)) = 1
        /\ StartsWith(PlannedCommands(r)[1], <<"e","c","h","o"," ">>)

\* C20, as the specification states it: an input that mentions the browser and
\* has no search term (nothing is left of it when the stop words are removed)
\* gives the launch of the browser as its only command.
C20_BrowserOnly ==
    \A r \in Requests :
        Planned(r) /\ Contains(PlannedInput(r), <<"f","i","r","e","f","o","x">>)
                   /\ Collapse(ReplaceEach(PlannedInput(r), stop_words)) = <<>> =>
            PlannedCommands(r) = <<<<"D","I","S","P","L","A","Y","=",":","1"," ","f","i","r","e","f","o","x","-","e","s","r"," ","&">>>>

\* the plan for "open firefox" has six commands and types the placeholder term
C20_OpenFirefoxSearches ==
    \E r \in Requests :
        /\ Planned(r)
        /\ req[r].message = Chars(<<"o","p","e","n"," ","f","i","r","e","f","o","x">>)
        /\ Len(PlannedCommands(r)) = 6
        /\ PlannedCommands(r)[5] = <<"x","d","o","t","o","o","l"," ","t","y","p","e"," ","\"","i","n","f","o","r","m","a","s","i","\"">>

\* C21: click rule.  For an input with a click keyword where no earlier rule
\* matches: with a numeric pair the plan is the move to (x, y), a wait, then
\* the click, in that order, with (x, y) the first pair of the text; with no
\* pair the click rule does not match and the later rules decide (the key
\* table when it has a word of the input), so no pointer command is planned.
C21_ClickRule ==
    \A r \in Requests :
        Planned(r) /\ ContainsAny(PlannedInput(r), click_keywords)
                   /\ ~Contains(PlannedInput(r), <<"f","i","r","e","f","o","x">>)
                   /\ ~OpenMatches(PlannedInput(r))
                   /\ ~TypeMatches(PlannedInput(r)) =>
            IF FirstCoords(PlannedInput(r)) # <<>>
            THEN PlannedCommands(r) =
                     <<<<"x","d","o","t","o","o","l"," ","m","o","u","s","e","m","o","v","e"," ">> \o FirstCoords(PlannedInput(r))[1]
                           \o <<" ">> \o FirstCoords(PlannedInput(r))[2],
                       <<"s","l","e","e","p"," ","1">>, <<"x","d","o","t","o","o","l"," ","c","l","i","c","k"," ","1">>>>
            ELSE /\ \A i \in 1..Len(PlannedCommands(r)) :
                        /\ ~StartsWith(PlannedCommands(r)[i], <<"x","d","o","t","o","o","l"," ","m","o","u","s","e","m","o","v","e">>)
                        /\ ~StartsWith(PlannedCommands(r)[i], <<"x","d","o","t","o","o","l"," ","c","l","i","c","k">>)
                 /\ KeyIndex(PlannedInput(r)) # 0 =>
                        req[r].result.value = KeyPlan(PlannedInput(r))

\* the plan for a text with two pairs moves to the first pair
C21_Witness ==
    \E r \in Requests :
        /\ Planned(r)
        /\ req[r].message = Chars(<<"k","l","i","k"," ","1","0",",","2","0"," ","3","0"," ","4","0">>)
        /\ PlannedCommands(r) = <<<<"x","d","o","t","o","o","l"," ","m","o","u","s","e","m","o","v","e"," ","1","0"," ","2","0">>, <<"s","l","e","e","p"," ","1">>, <<"x","d","o","t","o","o","l"," ","c","l","i","c","k"," ","1">>>>

\* the commands of the calls the turn of request r has made to the boundary
CallsOf(locals) == [i \in 1..Len(locals.boundary_calls) |-> locals.boundary_calls[i].command]

\* C22: sequential, exactly-once dispatch.  In every step, a turn adds at most
\* one call to the execution boundary; the call is for the command that follows
\* those already called, it is made when the outcome of every earlier call has
\* been recorded, and its own outcome is recorded before the next step.  The
\* calls made are always a prefix of the commands extracted (none for an empty
\* list) and are all of them when process_message returns.
C22_SequentialDispatch ==
    [][\A r \in Requests :
           /\ req'[r].pc \in {"dispatch", "save_assistant"} =>
                  /\ IsPrefix(CallsOf(req'[r]), Elements(req'[r].xdotool_commands))
                  /\ Len(req'[r].execution_results) = Len(req'[r].boundary_calls)
           /\ req'[r].pc = "save_assistant" =>
                  CallsOf(req'[r]) = Elements(req'[r].xdotool_commands)
           /\ req'[r].boundary_calls # req[r].boundary_calls /\ req'[r].pc # "done" =>
                  /\ req'[r].xdotool_commands = req[r].xdotool_commands
                  /\ Len(req[r].execution_results) = Len(req[r].boundary_calls)
                  /\ Len(req'[r].boundary_calls) = Len(req[r].boundary_calls) + 1
                  /\ IsPrefix(req[r].boundary_calls, req'[r].boundary_calls)
                  /\ Last(req'[r].boundary_calls).command =
                         Elements(req[r].xdotool_commands)[Len(req'[r].boundary_calls)]]_vars

\* the second command of a plan has been sent after the first one timed out
C22_Witness ==
    \E r \in Requests :
        /\ req[r].pc = "dispatch"
        /\ Len(req[r].boundary_calls) = 2
        /\ req[r].boundary_calls[1].reply.kind = "exception"
        /\ CallsOf(req[r]) = Elements(req[r].xdotool_commands)

\* the history the session of request r had before the turn of r started
PriorTurns(r) == SubSeq(History(r), 1, Len(History(r)) - 1)

\* the role and the content of the entries of a history
AsMessages(history) ==
    [i \in 1..Len(history) |-> [role |-> history[i].role, content |-> history[i].content]]

\* C23, as the specification states it: the message list sent to the backend
\* in a turn is the system instruction, once and first, then the most recent
\* (at most 5) turns recorded before the current one, in history order, then
\* the new user turn, once and last.
C23_MessageList ==
    \A r \in Requests :
        req[r].pc \in {"await_backend", "dispatch"} /\ req[r].payload # None =>
            req[r].payload.messages =
                <<[role |-> "system", content |-> system_prompt]>>
                \o AsMessages(RecentHistory(PriorTurns(r)))
                \o <<[role |-> "user", content |-> req[r].message]>>

\* the list sent in the first turn of a session holds the user turn twice
C23_UserTurnTwice ==
    \E r \in Requests :
        /\ req[r].pc = "dispatch"
        /\ PriorTurns(r) = <<>>
        /\ req[r].payload # None
        /\ req[r].payload.messages =
               <<[role |-> "system", content |-> system_prompt],
                 [role |-> "user", content |-> req[r].message],
                 [role |-> "user", content |-> req[r].message]>>

\* the r-th call was of the generative planner and has returned
Probed(r) ==
    req[r].pc = "returned" /\ req[r].method = "_generate_ai_response"

\* x is a text that is not blank
IsText(x) == IsStr(x) /\ Truthy(StripText(x))

\* the textual payload each shape of a reply has, None when the reply has not
\* the shape or the shape has no text
BlockText(data) ==
    IF IsList(Get(data, "content")) /\ Truthy(Get(data, "content"))
           /\ IsDict(Get(data, "content").l[1])
           /\ Get(Get(data, "content").l[1], "type") = Chars(<<"t","e","x","t">>)
           /\ IsText(Get(Get(data, "content").l[1], "text"))
    THEN Get(Get(data, "content").l[1], "text")
    ELSE None
FlatText(data) == IF IsText(Get(data, "content")) THEN Get(data, "content") ELSE None
MessagesText(data) ==
    IF IsList(Get(data, "messages")) /\ Truthy(Get(data, "messages"))
           /\ IsDict(Last(Get(data, "messages").l))
           /\ Get(Last(Get(data, "messages").l), "role") = Chars(<<"a","s","s","i","s","t","a","n","t">>)
           /\ IsText(Get(Last(Get(data, "messages").l), "content"))
    THEN Get(Last(Get(data, "messages").l), "content")
    ELSE None
ChoicesText(data) ==
    IF IsList(Get(data, "choices")) /\ Truthy(Get(data, "choices"))
           /\ IsDict(Get(data, "choices").l[1])
           /\ IsDict(Or(Get(Get(data, "choices").l[1], "message"),
                        Get(Get(data, "choices").l[1], "delta")))
           /\ IsText(Get(Or(Get(Get(data, "choices").l[1], "message"),
                            Get(Get(data, "choices").l[1], "delta")), "content"))
    THEN Get(Or(Get(Get(data, "choices").l[1], "message"),
                Get(Get(data, "choices").l[1], "delta")), "content")
    ELSE None

\* the payload of the first shape, in priority order, that has one
FirstText(data) ==
    Or(BlockText(data), Or(FlatText(data), Or(MessagesText(data), ChoicesText(data))))

\* C24, as the specification states it: for a JSON reply the planner returns
\* the textual payload of the first shape, in the order content-block list,
\* flat content string, messages array, choices array, that has one, also when
\* a shape of higher priority is there without a text; when no shape has a
\* text it returns the raw body.
C24_FirstShapeWithText ==
    \A r \in Requests :
        Probed(r) /\ ~JsonLoads(req[r].outcome.raw).raised
                  /\ IsDict(JsonLoads(req[r].outcome.raw).value) =>
            req[r].result =
                Return(Or(FirstText(JsonLoads(req[r].outcome.raw).value), req[r].outcome.raw))

\* a reply whose content-block list has no text block and whose choices array
\* has a text: the planner returned the raw body
C24_HigherShapeBlocks ==
    \E r \in Requests :
        /\ Probed(r)
        /\ req[r].outcome.raw =
               JsonDumps(Dict([content |-> Blocks(<<"t","o","o","l","_","u","s","e">>, <<"f","r","o","m"," ","b","l","o","c","k","s">>),
                               choices |-> Choices("message", <<"f","r","o","m"," ","c","h","o","i","c","e","s">>)]))
        /\ FirstText(JsonLoads(req[r].outcome.raw).value) = Chars(<<"f","r","o","m"," ","c","h","o","i","c","e","s">>)
        /\ req[r].result = Return(req[r].outcome.raw)

\* the r-th call was of the dispatcher and has returned
Dispatched(r) ==
    req[r].pc = "returned" /\ req[r].method = "_execute_xdotool_command"

\* C25, as the specification states it: for a 200 reply of the boundary
\* service that listens where the dispatcher posts, the exit status, the
\* output and the error text of the outcome are those the service reported
\* for the run of the command.
C25_OutcomeReportsRun ==
    \A r \in Requests :
        Dispatched(r) /\ req[r].boundary_calls[1].service = "vnc_api"
                      /\ req[r].boundary_calls[1].reply.status = 200 =>
            /\ req[r].result.value.return_code = Num(req[r].boundary_calls[1].run.returncode)
            /\ req[r].result.value.output = Chars(req[r].boundary_calls[1].run.stdout)
            /\ req[r].result.value.error = Chars(req[r].boundary_calls[1].run.stderr)

\* the command exited with status 1 and an error text on the boundary; its
\* outcome has the exit status 0 and no error text
C25_ExitStatusLost ==
    \E r \in Requests :
        /\ Dispatched(r)
        /\ req[r].boundary_calls[1].service = "vnc_api"
        /\ req[r].boundary_calls[1].reply.status = 200
        /\ req[r].boundary_calls[1].run.returncode = 1
        /\ req[r].boundary_calls[1].run.stderr # <<>>
        /\ req[r].result.value.return_code = Num(0)
        /\ req[r].result.value.error = Chars(<<>>)

\* the legacy segments of a text, and the indices of those that are not blank
Segments(r) == LegacyMatches(req[r].ai_response.s, 1)
Kept(r) == {i \in 1..Len(Segments(r)) : Strip(Segments(r)[i]) # <<>>}

\* C26: legacy extraction.  For a text that is not a JSON document the
\* extractor returns, without raising, one command for every segment between
\* <xdotool> and </xdotool> that is not blank: the k-th command is the trimmed
\* text of the k-th such segment of the document.  The two segments
\* key Return and type "hi" give these two commands in this order.
C26_LegacyExtraction ==
    \A r \in Requests :
        Extracted(r) /\ req[r].ai_response.t = "chars" =>
            /\ ~req[r].result.raised
            /\ IsList(req[r].result.value)
            /\ Len(req[r].result.value.l) = Cardinality(Kept(r))
            /\ \A k \in 1..Len(req[r].result.value.l) :
                   \E i \in Kept(r) :
                       /\ Cardinality({j \in Kept(r) : j <= i}) = k
                       /\ req[r].result.value.l[k] = Chars(Strip(Segments(r)[i]))
            /\ req[r].ai_response
                   = Chars(<<"<","x","d","o","t","o","o","l",">","k","e","y"," ","R","e","t","u","r","n","<","/","x","d","o","t","o","o","l",">","<","x","d","o","t","o","o","l",">","t","y","p","e"," ","\"","h","i","\"","<","/","x","d","o","t","o","o","l",">">>) =>
                   req[r].result.value = List(<<Chars(<<"k","e","y"," ","R","e","t","u","r","n">>), Chars(<<"t","y","p","e"," ","\"","h","i","\"">>)>>)

\* a text of three segments, the second one blank, gave two commands
C26_Witness ==
    \E r \in Requests :
        /\ Extracted(r)
        /\ req[r].ai_response.t = "chars"
        /\ Len(Segments(r)) = 3
        /\ Strip(Segments(r)[2]) = <<>>
        /\ req[r].result = Return(List(<<Chars(<<"k","e","y"," ","R","e","t","u","r","n">>), Chars(<<"t","y","p","e"," ","\"","h","i","\"">>)>>))

\* the lines of a text, without their line ends
RECURSIVE SplitLines(_)
SplitLines(s) ==
    IF s = <<>> THEN <<>>
    ELSE IF FindFrom(s, <<"\n">>, 1) = 0 THEN <<s>>
    ELSE <<SubSeq(s, 1, FindFrom(s, <<"\n">>, 1) - 1)>>
         \o SplitLines(SubSeq(s, FindFrom(s, <<"\n">>, 1) + 1, Len(s)))

\* the lines of the report returned to call r, and those that start with a marker
ReportedLines(r) == SplitLines(req[r].result.value.s)
MarkerLines(r) ==
    SelectSeq(ReportedLines(r), LAMBDA line : line # <<>> /\ line[1] \in {CheckMark, CrossMark})

\* a command as the report shows it
Shown(command) ==
    IF Len(command) <= 50 THEN command ELSE SubSeq(command, 1, 50) \o <<".",".",".">>

\* C27: report body.  The report of a non-empty plan has, after the header,
\* one marker line per outcome, in the order of the outcomes and numbered from
\* 1, with the success marker iff the outcome succeeded; the command is shown
\* in full when it has at most 50 characters, else as its first 50 characters
\* and an ellipsis; the excerpt of an output or error line has at most 100
\* characters.
C27_ReportBody ==
    \A r \in Requests :
        Reported(r) /\ Truthy(req[r].xdotool_commands) /\ ~req[r].result.raised =>
            /\ StartsWith(ReportedLines(r)[1], <<"[","R","E","P","O","R","T","]",":"," ">>)
            /\ Len(MarkerLines(r)) = Len(req[r].execution_results)
            /\ \A k \in 1..Len(MarkerLines(r)) :
                   MarkerLines(r)[k] =
                       <<IF req[r].execution_results[k].success THEN CheckMark ELSE CrossMark>>
                       \o <<" ","C","o","m","m","a","n","d"," ">> \o IntToStr(k) \o <<":"," ">>
                       \o Shown(req[r].execution_results[k].command.s)
            /\ \A n \in 1..Len(ReportedLines(r)) :
                   /\ StartsWith(ReportedLines(r)[n], <<" "," "," ","O","u","t","p","u","t",":"," ">>) =>
                          Len(ReportedLines(r)[n]) <= Len(<<" "," "," ","O","u","t","p","u","t",":"," ">>) + 100
                   /\ StartsWith(ReportedLines(r)[n], <<" "," "," ","E","r","r","o","r",":"," ">>) =>
                          Len(ReportedLines(r)[n]) <= Len(<<" "," "," ","E","r","r","o","r",":"," ">>) + 100

\* a report of three outcomes: a command of 60 characters shown cut with an
\* output of 130 characters, a failed command of 50 characters shown in full
\* with an error of 130 characters, and a third line
C27_Witness ==
    \E r \in Requests :
        /\ Reported(r)
        /\ Truthy(req[r].xdotool_commands)
        /\ ~req[r].result.raised
        /\ Len(req[r].execution_results) = 3
        /\ Len(req[r].execution_results[1].command.s) = 60
        /\ Len(MarkerLines(r)[1]) = Len(<<" ","C","o","m","m","a","n","d"," ","1",":"," ">>) + 1 + 53
        /\ MarkerLines(r)[2] = <<CrossMark>> \o <<" ","C","o","m","m","a","n","d"," ","2",":"," ">> \o LongCommand(35).s
        /\ \E n \in 1..Len(ReportedLines(r)) :
               ReportedLines(r)[n] = <<" "," "," ","O","u","t","p","u","t",":"," ">> \o Filled("o", 100)
        /\ \E n \in 1..Len(ReportedLines(r)) :
               ReportedLines(r)[n] = <<" "," "," ","E","r","r","o","r",":"," ">> \o Filled("e", 100)

\* the reply to the call r made is a 200 reply whose body is a JSON object
OkReply(r) ==
    /\ req[r].boundary_calls[1].reply.kind = "response"
    /\ req[r].boundary_calls[1].reply.status = 200
    /\ ~JsonLoads(req[r].boundary_calls[1].reply.body).raised
    /\ IsDict(JsonLoads(req[r].boundary_calls[1].reply.body).value)

NoTurnInFlight(a) ==
    \A r \in Requests :
        req[r].agent = a => req[r].pc \notin {"process", "await_backend", "dispatch"}

\* C29, as the claim states it: whenever no turn of a session is in flight,
\* after successful and failed turns alike, the history of its agent is a
\* sequence of pairs, a user turn followed by the assistant turn that answers
\* it: its length is even and the roles alternate.
C29_HistoryAlternates ==
    \A a \in 1..Len(agents) :
        NoTurnInFlight(a) =>
            /\ Len(agents[a].conversation_history) % 2 = 0
            /\ \A i \in 1..Len(agents[a].conversation_history) :
                   agents[a].conversation_history[i].role =
                       (IF i % 2 = 1 THEN "user" ELSE "assistant")

\* a turn has failed and process_message has returned: the history of the
\* agent ends with the user turn, which has no assistant turn
C29_UserTurnUnanswered ==
    \E r \in Requests :
        /\ Returned(r)
        /\ ~req[r].result.success
        /\ NoTurnInFlight(req[r].agent)
        /\ Len(History(r)) % 2 = 1
        /\ Last(History(r)).role = "user"


\* the process_message calls that passed the busy check and have not returned
PastBusyCheck == {r \in Requests : req[r].pc \in {"processing", "sampling", "finally"}}

\* C30: for any interleaving of process_message and cleanup calls on one
\* agent, at most one process_message is past the busy check at a time; a call
\* that finds the agent running reports the status busy and returns without
\* changing the message list; and is_running is false whenever no
\* process_message is in progress.
C30_BusyGuard ==
    [][ /\ Cardinality(PastBusyCheck') <= 1
        /\ \A r \in Requests :
               (req[r].pc = "idle" /\ req'[r].pc # "idle" /\ agents[1].is_running)
                   => /\ req'[r].pc = "busy"
                      /\ agents'[1].status = "busy"
                      /\ agents'[1].messages = agents[1].messages
        /\ \A r \in Requests :
               (req[r].pc = "busy" /\ req'[r].pc = "done")
                   => agents'[1].messages = agents[1].messages
        /\ (PastBusyCheck' = {}) => ~agents'[1].is_running ]_vars

\* C30: cleanup reset is_running while a process_message was waiting for its
\* status callback, and a second process_message passed the busy check too
C30_TwoPastBusyCheck ==
    /\ Cardinality(PastBusyCheck) = 2
    /\ agents[1].is_running
    /\ \E r \in PastBusyCheck : req[r].pc = "processing"
====
